---- MODULE Spec2Model ----
(***************************************************************************)
(* Bantay Presyo Pro: the data pipeline driver (run_pipeline.sh), the      *)
(* dashboard's data hook (useData / App) and the pure helpers of the       *)
(* sections (parsePrice, the volatility lists, the comparison table).      *)
(*                                                                         *)
(* The scraper (scraper/bantay_scraper.py) and the builder                 *)
(* (pipeline/build_dashboard_data.py) are invoked by run_pipeline.sh but   *)
(* their code is not part of the sources at hand; the definitions that     *)
(* stand for them follow the written specification.                        *)
(***************************************************************************)
EXTENDS Integers, Sequences, FiniteSets, TLC

(***************************************************************************)
(* Bounds of the model.                                                    *)
(***************************************************************************)
\* invocations of run_pipeline.sh in one behaviour
MaxRuns == 2
\* (region, category) pages the scraper has to fetch
NumPairs == 2
\* ticks of the wall clock
MaxClock == 2
\* characters of a price cell
MaxCell == 3
\* observations of a series
MaxPoints == 5
\* regions that may carry a commodity
NumRegions == 3
\* W of the moving average
MaxWindow == 3
\* day numbers of the observations of a dated series
MaxDay == 9
\* observations of a dated series
MaxObs == 3
\* markets (price cells) of a row of the market comparison table
MaxMarkets == 3
\* reference dates the runs are made for
MaxDates == 3
\* runs made for one reference date
MaxWrites == 2
\* dashboard records drawn freely (a fixed tail may follow them)
MaxItems == 3
\* commodities of the table of one region and category
MaxCommodities == 2
\* dashboard records given to the regional rankings
MaxRecords == 3

(***************************************************************************)
(* Program constants.                                                      *)
(***************************************************************************)
\* "retried once": at most two attempts per pair
MaxAttempts == 2
\* bounded concurrency of the worker pool
Concurrency == 2
\* .slice(0, 10) of the volatility lists
TopN == 10
\* priced points below which a series has "Insufficient Data"
MinPoints == 5
\* trailing priced observations the volatility is taken over
VolatilityWindow == 30
\* change_7d_pct compares with the observation this many days before
ChangeDays == 7

VARIABLES
  \* ---- run_pipeline.sh ----
  pc,          \* position of the script
  args,        \* [skip, dry]: SKIP_SCRAPE and DRY_RUN of the current invocation
  run,         \* number of the current invocation
  now,         \* wall clock
  exitCode,    \* exit status of the last finished invocation (-1: none yet)
  steps,       \* steps the current invocation has entered
  bIdx,        \* documents the build step has written so far
  cIdx,        \* files cp has copied so far
  \* ---- file system ----
  scraped,     \* scraper/output/market_comparison_data.json
  appData,     \* app/public/data/<doc>
  distExists,  \* app/dist/data is a directory
  distDir,     \* app/dist is a directory
  distData,    \* app/dist/data/<doc>
  prev,        \* the file system as the current invocation found it
  \* ---- scraper process ----
  scraperUp,   \* the scraper process is alive
  scraperRc,   \* its exit status (-1: not exited)
  fetch,       \* per pair: "pending", "inflight", "ok", "skipped"
  attempts,    \* per pair: fetches started
  fetched,     \* page fetches started in the current invocation
  extraction,  \* how the scraper of the current invocation ended ("" : not yet)
  regions_with_data,  \* scrape_metadata.regions_with_data this invocation's scraper wrote (0: none)
  \* ---- useData / App ----
  served,      \* what the server answers for each of the four documents
  data,        \* the DataState of useData
  phase,       \* position of fetchData: "fetch", "json", "settled"
  \* ---- parsePrice ----
  raw,         \* a price cell of the market-comparison table
  parsed,      \* what parsePrice returned for it
  \* ---- volatility score ----
  series,      \* the observations of one series (a price, or Null)
  score,       \* its volatility_score
  \* ---- CommodityComparison ----
  carried,     \* the regions carrying one commodity, with their latest price
  trends,      \* regional_trends of that commodity, as published
  rows,        \* the rows of the regional price comparison table
  \* ---- VolatilityAnalysis ----
  dashboard,     \* the dashboard records the section is given
  mostVolatile,  \* its "Most Volatile Commodities" list
  leastVolatile, \* its "Most Stable Commodities" list
  \* ---- MarketComparison ----
  mounted,          \* the mount effect has run
  pending,          \* the loads in flight: the server's answer and how far it got
  marketData,       \* useState<MarketComparisonData | null>(null)
  selectedRegion,   \* useState("")
  selectedCategory, \* useState("")
  loading,          \* useState(true)
  error,            \* useState<string | null>(null)
  prices,           \* the price cells of one row of the table
  classes,          \* the class of each cell of that row
  \* ---- Publisher ----
  unserializable,   \* the documents whose payload cannot be serialized
  pubIdx,           \* documents the publisher has dealt with
  written,          \* documents it has written
  report,           \* documents it reports as failed
  \* ---- Aggregator ----
  points,           \* a series: the price of each observation, or Null
  window,           \* W of the moving average
  average,          \* the moving average of the series
  history,          \* a series: observations with their dates
  change_7d_pct,    \* its 7-day percent change
  store,            \* the stored Series of one (region, commodity)
  lastWrite,        \* per date, the observation written last
  \* ---- MarketComparison: the controls and the table ----
  searchQuery,      \* useState("")
  sortBy,           \* useState<"name" | "spread">("name")
  showTopSpread,    \* useState(false)
  currentData,      \* the commodities of the selected region and category
  priceStats,       \* getPriceStats(it.prices).spread of each of them (Null: no stats)
  filteredAndSortedCommodities,  \* the rows of the table
  summaryStats,     \* the summary cards (Null: not rendered)
  \* ---- RegionalRankings ----
  rankingsCategory, \* selectedCategory of RegionalRankings: useState('Rice')
  regionalData      \* the rows of the ranking

hookVars == <<served, data, phase>>

fnVars == <<raw, parsed, series, score, carried, trends, rows, dashboard,
            mostVolatile, leastVolatile>>

pipeVars == <<pc, args, run, now, exitCode, steps, bIdx, cIdx, scraped, appData,
              distExists, distDir, distData, prev, scraperUp, scraperRc, fetch,
              attempts, fetched, extraction, regions_with_data>>

marketVars == <<mounted, pending, marketData, selectedRegion, selectedCategory,
                loading, error>>

styleVars == <<prices, classes>>

publishVars == <<unserializable, pubIdx, written, report>>

averageVars == <<points, window, average>>

changeVars == <<history, change_7d_pct>>

storeVars == <<store, lastWrite>>

controlVars == <<searchQuery, sortBy, showTopSpread>>

tableVars == <<currentData, priceStats, filteredAndSortedCommodities, summaryStats>>

rankVars == <<rankingsCategory, regionalData>>

viewVars == <<controlVars, tableVars, rankVars>>

sectionVars == <<marketVars, styleVars, publishVars, averageVars, changeVars,
                 storeVars, viewVars>>

\* the state of the dashboard (declared below, with the sections)
uiVars == <<hookVars, fnVars, sectionVars>>

vars == <<pipeVars, uiVars>>

(***************************************************************************)
(* The published documents, in the order of the data file reference.       *)
(***************************************************************************)
Docs == << "market_comparison_data.json", "regional_dashboard.json",
           "commodity_comparison.json", "region_view.json",
           "summary_statistics.json", "commodity_prices_latest.csv" >>

DocSet == { Docs[i] : i \in 1..Len(Docs) }

Pairs == 1..NumPairs

\* A file: the invocation that wrote it, the scrape it was built from, and the
\* generation stamp it carries (0 for a document without one).
File(r, input, gen) == [run |-> r, input |-> input, gen |-> gen]

\* What a reader of the file sees: its bytes do not tell which run wrote it.
Bytes(f) == [input |-> f.input, gen |-> f.gen]

NoFile == [exists |-> FALSE, id |-> 0]

\* summary_statistics.json carries metadata.generated_date
Stamped(d) == d = "summary_statistics.json"


(***************************************************************************)
(* The scraper process (scraper/bantay_scraper.py).  Each pair is fetched  *)
(* by a worker of a bounded pool; a failed fetch is retried once and then  *)
(* skipped; the output file is written when every pair has settled and at  *)
(* least one succeeded; the exit status is non-zero only when none did.    *)
(***************************************************************************)
InFlight == { p \in Pairs : fetch[p] = "inflight" }

SettledEarly == \E p \in Pairs : fetch[p] \in {"ok", "skipped"}
Settled == \A p \in Pairs : fetch[p] \in {"ok", "skipped"}

OkPairs == { p \in Pairs : fetch[p] = "ok" }

\* the pages belong to two regions, dealt in turn
RegionOf(p) == ((p - 1) % 2) + 1

ScrapeRegions == { RegionOf(p) : p \in Pairs }

\* the regions that lost every fetch are left out of the output
RegionsConfigured == ScrapeRegions
RegionsWithData == { RegionOf(p) : p \in OkPairs }

\* exit status of the scraper once every pair has settled
ScraperExitStatus == IF OkPairs = {} THEN 1 ELSE 0

FetchStart(p) ==
  /\ scraperUp
  /\ fetch[p] = "pending"
  /\ attempts[p] < MaxAttempts
  /\ Cardinality(InFlight) < Concurrency
  /\ fetch' = [fetch EXCEPT ![p] = "inflight"]
  /\ attempts' = [attempts EXCEPT ![p] = @ + 1]
  /\ fetched' = fetched + 1
  /\ UNCHANGED <<uiVars, extraction, regions_with_data>>
  /\ UNCHANGED <<pc, args, run, now, exitCode, steps, bIdx, cIdx, scraped,
                 appData, distExists, distDir, distData, prev, scraperUp, scraperRc>>

FetchOk(p) ==
  /\ scraperUp
  /\ fetch[p] = "inflight"
  /\ fetch' = [fetch EXCEPT ![p] = "ok"]
  /\ UNCHANGED <<uiVars, extraction, regions_with_data>>
  /\ UNCHANGED <<pc, args, run, now, exitCode, steps, bIdx, cIdx, scraped,
                 appData, distExists, distDir, distData, prev, scraperUp, scraperRc,
                 attempts, fetched>>

\* timeout or HTTP error: back to the queue for the one retry, then skipped
FetchFail(p) ==
  /\ scraperUp
  /\ fetch[p] = "inflight"
  /\ fetch' = [fetch EXCEPT ![p] =
                 IF attempts[p] < MaxAttempts THEN "pending" ELSE "skipped"]
  /\ UNCHANGED <<uiVars, extraction, regions_with_data>>
  /\ UNCHANGED <<pc, args, run, now, exitCode, steps, bIdx, cIdx, scraped,
                 appData, distExists, distDir, distData, prev, scraperUp, scraperRc,
                 attempts, fetched>>

\* what the scraper reports when every pair has settled
Outcome ==
  IF OkPairs = {} THEN "failed"
  ELSE IF OkPairs = Pairs THEN "full"
  ELSE "partial"

\* the process ends: its memory is gone, its status and its output remain
ScraperExit ==
  /\ scraperUp
  /\ Settled
  /\ scraperUp' = FALSE
  /\ scraperRc' = ScraperExitStatus
  /\ extraction' = Outcome
  /\ scraped' = IF ScraperExitStatus = 0
                  THEN [exists |-> TRUE, id |-> run]
                  ELSE scraped
  /\ regions_with_data' = IF ScraperExitStatus = 0
                            THEN Cardinality(RegionsWithData)
                            ELSE regions_with_data
  /\ fetch' = [p \in Pairs |-> "pending"]
  /\ attempts' = [p \in Pairs |-> 0]
  /\ UNCHANGED uiVars
  /\ UNCHANGED <<pc, args, run, now, exitCode, steps, bIdx, cIdx, appData,
                 distExists, distDir, distData, prev, fetched>>

\* the scraper dies of an uncaught error: no output, non-zero status
ScraperCrash ==
  /\ scraperUp
  /\ scraperUp' = FALSE
  /\ scraperRc' = 1
  /\ extraction' = "crashed"
  /\ fetch' = [p \in Pairs |-> "pending"]
  /\ attempts' = [p \in Pairs |-> 0]
  /\ UNCHANGED <<uiVars, regions_with_data>>
  /\ UNCHANGED <<pc, args, run, now, exitCode, steps, bIdx, cIdx, scraped,
                 appData, distExists, distDir, distData, prev, fetched>>

(***************************************************************************)
(* run_pipeline.sh                                                         *)
(***************************************************************************)
\* the file system as an invocation finds it
Snapshot == [scraped |-> scraped, app |-> appData, dist |-> distData]

\* ./run_pipeline.sh [--skip-scrape] [--dry-run]: argument loop
Invoke(skip, dry) ==
  /\ pc \in {"idle", "done"}
  /\ run < MaxRuns
  /\ pc' = "main"
  /\ args' = [skip |-> skip, dry |-> dry]
  /\ run' = run + 1
  /\ \E t \in {now, now + 1} : t <= MaxClock /\ now' = t
  /\ exitCode' = -1
  /\ steps' = {}
  /\ bIdx' = 0
  /\ cIdx' = 0
  /\ prev' = Snapshot
  /\ scraperRc' = -1
  /\ fetch' = [p \in Pairs |-> "pending"]
  /\ attempts' = [p \in Pairs |-> 0]
  /\ fetched' = 0
  /\ extraction' = ""
  /\ regions_with_data' = 0
  /\ UNCHANGED uiVars
  /\ UNCHANGED <<scraped, appData, distExists, distDir, distData, scraperUp>>

\* if [[ $DRY_RUN -eq 1 ]]
IsDryRunIgnored == FALSE
IsDryRun == args.dry

\* if [[ $SKIP_SCRAPE -eq 0 ]]
IsSkipScrapeIgnored == FALSE
IsSkipScrape == args.skip

\* python3 "$SCRAPER" --dry-run; exit 0
DryRun ==
  /\ pc = "main"
  /\ IsDryRun
  /\ steps' = steps \cup {"dry"}
  /\ pc' = "done"
  /\ exitCode' = 0
  /\ UNCHANGED <<uiVars, extraction, regions_with_data>>
  /\ UNCHANGED <<args, run, now, bIdx, cIdx, scraped, appData, distExists, distDir,
                 distData, prev, scraperUp, scraperRc, fetch, attempts, fetched>>

\* Step 1: python3 "$SCRAPER" --output "$SCRAPED"
ScrapeBegin ==
  /\ pc = "main"
  /\ ~IsDryRun
  /\ ~IsSkipScrape
  /\ pc' = "scrape"
  /\ steps' = steps \cup {"scrape"}
  /\ scraperUp' = TRUE
  /\ UNCHANGED <<uiVars, extraction, regions_with_data>>
  /\ UNCHANGED <<args, run, now, exitCode, bIdx, cIdx, scraped, appData,
                 distExists, distDir, distData, prev, scraperRc, fetch, attempts, fetched>>

\* Step 1: Skipping scrape (--skip-scrape)
SkipScrape ==
  /\ pc = "main"
  /\ ~IsDryRun
  /\ IsSkipScrape
  /\ pc' = "check"
  /\ UNCHANGED <<uiVars, extraction, regions_with_data>>
  /\ UNCHANGED <<args, run, now, exitCode, steps, bIdx, cIdx, scraped, appData,
                 distExists, distDir, distData, prev, scraperUp, scraperRc, fetch,
                 attempts, fetched>>

\* the scraper runs in the foreground: the script resumes when it has exited
WaitScraperBackground == TRUE
WaitScraper == ~scraperUp

\* set -e: a command with a non-zero status ends the script with that status
ErrExitOff(rc) == FALSE
ErrExit(rc) == rc >= 1

ScrapeEnd ==
  /\ pc = "scrape"
  /\ WaitScraper
  /\ IF ErrExit(scraperRc)
       THEN pc' = "done" /\ exitCode' = scraperRc
       ELSE pc' = "check" /\ exitCode' = exitCode
  /\ UNCHANGED <<uiVars, extraction, regions_with_data>>
  /\ UNCHANGED <<args, run, now, steps, bIdx, cIdx, scraped, appData,
                 distExists, distDir, distData, prev, scraperUp, scraperRc, fetch,
                 attempts, fetched>>

\* if [[ ! -f "$SCRAPED" ]]; then ... exit 1
FileCheck ==
  /\ pc = "check"
  /\ IF ~scraped.exists
       THEN pc' = "done" /\ exitCode' = 1 /\ steps' = steps
       ELSE pc' = "build" /\ exitCode' = exitCode /\ steps' = steps \cup {"build"}
  /\ UNCHANGED <<uiVars, extraction, regions_with_data>>
  /\ UNCHANGED <<args, run, now, bIdx, cIdx, scraped, appData, distExists, distDir,
                 distData, prev, scraperUp, scraperRc, fetch, attempts, fetched>>


\* metadata.generated_date of summary_statistics.json: the time of the build
GeneratedDate == now

\* the document the builder writes for `d` from the scraped file
BuiltDoc(d) == File(run, scraped.id, IF Stamped(d) THEN GeneratedDate ELSE 0)

\* Step 2: python3 "$PIPELINE" --input "$SCRAPED" --output-dir "$APP_DATA"
\* The builder writes each document to its path under $APP_DATA in turn.
BuildWrite ==
  /\ pc = "build"
  /\ bIdx < Len(Docs)
  /\ appData' = [appData EXCEPT ![Docs[bIdx + 1]] = BuiltDoc(Docs[bIdx + 1])]
  /\ bIdx' = bIdx + 1
  /\ UNCHANGED <<uiVars, extraction, regions_with_data>>
  /\ UNCHANGED <<pc, args, run, now, exitCode, steps, cIdx, scraped, distExists, distDir,
                 distData, prev, scraperUp, scraperRc, fetch, attempts, fetched>>

\* the builder fails (set -e ends the script) with some documents written
BuildCrash ==
  /\ pc = "build"
  /\ ErrExit(1)
  /\ pc' = "done"
  /\ exitCode' = 1
  /\ UNCHANGED <<uiVars, extraction, regions_with_data>>
  /\ UNCHANGED <<args, run, now, steps, bIdx, cIdx, scraped, appData, distExists, distDir,
                 distData, prev, scraperUp, scraperRc, fetch, attempts, fetched>>

BuildEnd ==
  /\ pc = "build"
  /\ bIdx = Len(Docs)
  /\ pc' = "copy"
  /\ steps' = steps \cup {"copy"}
  /\ UNCHANGED <<uiVars, extraction, regions_with_data>>
  /\ UNCHANGED <<args, run, now, exitCode, bIdx, cIdx, scraped, appData,
                 distExists, distDir, distData, prev, scraperUp, scraperRc, fetch,
                 attempts, fetched>>

\* Step 3: if [[ -d "$DIST_DATA" ]]; then cp -r "$APP_DATA"/. "$DIST_DATA/"
CopyFile ==
  /\ pc = "copy"
  /\ distExists
  /\ cIdx < Len(Docs)
  /\ distData' = [distData EXCEPT ![Docs[cIdx + 1]] =
                    File(run, appData[Docs[cIdx + 1]].input, appData[Docs[cIdx + 1]].gen)]
  /\ cIdx' = cIdx + 1
  /\ UNCHANGED <<uiVars, extraction, regions_with_data>>
  /\ UNCHANGED <<pc, args, run, now, exitCode, steps, bIdx, scraped, appData,
                 distExists, distDir, prev, scraperUp, scraperRc, fetch, attempts, fetched>>

\* cp fails part-way (set -e ends the script)
CopyFail ==
  /\ pc = "copy"
  /\ distExists
  /\ ErrExit(1)
  /\ pc' = "done"
  /\ exitCode' = 1
  /\ UNCHANGED <<uiVars, extraction, regions_with_data>>
  /\ UNCHANGED <<args, run, now, steps, bIdx, cIdx, scraped, appData, distExists, distDir,
                 distData, prev, scraperUp, scraperRc, fetch, attempts, fetched>>

\* the script reaches its last line: either cp is done or dist/ was not found
CopyEnd ==
  /\ pc = "copy"
  /\ distExists => cIdx = Len(Docs)
  /\ pc' = "done"
  /\ exitCode' = 0
  /\ UNCHANGED <<uiVars, extraction, regions_with_data>>
  /\ UNCHANGED <<args, run, now, steps, bIdx, cIdx, scraped, appData, distExists, distDir,
                 distData, prev, scraperUp, scraperRc, fetch, attempts, fetched>>


(***************************************************************************)
(* The pipeline's specification: any sequence of invocations of            *)
(* run_pipeline.sh, each running to its exit.                              *)
(***************************************************************************)
InitialFiles == [d \in DocSet |-> File(0, 0, 0)]

PipeInit ==
  /\ pc = "idle"
  /\ args = [skip |-> FALSE, dry |-> FALSE]
  /\ run = 0
  /\ now = 0
  /\ exitCode = -1
  /\ steps = {}
  /\ bIdx = 0
  /\ cIdx = 0
  /\ scraped \in {NoFile, [exists |-> TRUE, id |-> 0]}
  /\ appData = InitialFiles
  /\ distDir \in BOOLEAN
  /\ distExists \in {FALSE, distDir}
  /\ distData = InitialFiles
  /\ prev = [scraped |-> scraped, app |-> InitialFiles, dist |-> InitialFiles]
  /\ scraperUp = FALSE
  /\ scraperRc = -1
  /\ fetch = [p \in Pairs |-> "pending"]
  /\ attempts = [p \in Pairs |-> 0]
  /\ fetched = 0
  /\ extraction = ""
  /\ regions_with_data = 0

\* the pipeline at rest, for the specifications of the dashboard
PipeQuiet ==
  /\ PipeInit
  /\ scraped = NoFile
  /\ distDir = FALSE

Null == << >>

Some(n) == << n >>

HookQuiet ==
  /\ served = << >>
  /\ data = << >>
  /\ phase = "off"

PriceQuiet ==
  /\ raw = << >>
  /\ parsed = Null

VolQuiet ==
  /\ series = << >>
  /\ score = ""

CmpQuiet ==
  /\ carried = << >>
  /\ trends = << >>
  /\ rows = << >>

TopQuiet ==
  /\ dashboard = << >>
  /\ mostVolatile = << >>
  /\ leastVolatile = << >>

MarketQuiet ==
  /\ mounted = FALSE
  /\ pending = << >>
  /\ marketData = Null
  /\ selectedRegion = ""
  /\ selectedCategory = ""
  /\ loading = TRUE
  /\ error = "null"

StyleQuiet ==
  /\ prices = << >>
  /\ classes = << >>

PublishQuiet ==
  /\ unserializable = {}
  /\ pubIdx = 0
  /\ written = {}
  /\ report = {}

AverageQuiet ==
  /\ points = << >>
  /\ window = 0
  /\ average = Null

ChangeQuiet ==
  /\ history = << >>
  /\ change_7d_pct = Null

StoreQuiet ==
  /\ store = << >>
  /\ lastWrite = << >>

ControlQuiet ==
  /\ searchQuery = << >>
  /\ sortBy = "name"
  /\ showTopSpread = FALSE

TableQuiet ==
  /\ currentData = << >>
  /\ priceStats = << >>
  /\ filteredAndSortedCommodities = << >>
  /\ summaryStats = Null

RankQuiet ==
  /\ rankingsCategory = "Rice"
  /\ regionalData = << >>

ViewQuiet ==
  /\ ControlQuiet
  /\ TableQuiet
  /\ RankQuiet

SectionsQuiet ==
  /\ ViewQuiet
  /\ MarketQuiet
  /\ StyleQuiet
  /\ PublishQuiet
  /\ AverageQuiet
  /\ ChangeQuiet
  /\ StoreQuiet

Init ==
  /\ PipeInit
  /\ HookQuiet
  /\ PriceQuiet
  /\ VolQuiet
  /\ CmpQuiet
  /\ TopQuiet
  /\ SectionsQuiet

Next ==
  \/ \E skip \in BOOLEAN, dry \in BOOLEAN : Invoke(skip, dry)
  \/ DryRun
  \/ ScrapeBegin
  \/ SkipScrape
  \/ \E p \in Pairs : FetchStart(p)
  \/ \E p \in Pairs : FetchOk(p)
  \/ \E p \in Pairs : FetchFail(p)
  \/ ScraperExit
  \/ ScraperCrash
  \/ ScrapeEnd
  \/ FileCheck
  \/ BuildWrite
  \/ BuildCrash
  \/ BuildEnd
  \/ CopyFile
  \/ CopyFail
  \/ CopyEnd

Spec == Init /\ [][Next]_vars


(***************************************************************************)
(* Claims about run_pipeline.sh.                                           *)
(***************************************************************************)
Finished == pc = "done"

PublishedAsFound ==
  /\ \A d \in DocSet : Bytes(appData[d]) = Bytes(prev.app[d])
  /\ \A d \in DocSet : Bytes(distData[d]) = Bytes(prev.dist[d])

\* C2: an invocation that ends with a non-zero status leaves every published
\* file of app/public/data and app/dist/data as the invocation found it.
C2_FailedRunKeepsPublished ==
  (Finished /\ exitCode # 0) => PublishedAsFound

\* C3: when every fetch of the scrape ended skipped, the script ends with a
\* non-zero status straight after the scrape step: it enters neither the
\* build nor the copy step and no published file is written.  When some fetch
\* succeeded the scraper's status is zero, the script enters the build step,
\* and it enters the copy step as soon as the build has ended well.
C3_TotalFailureStopsRun ==
  /\ extraction = "failed" =>
       /\ scraperRc >= 1
       /\ pc \in {"scrape", "done"}
       /\ steps = {"scrape"}
       /\ appData = prev.app
       /\ distData = prev.dist
       /\ Finished => exitCode >= 1
  /\ extraction \in {"partial", "full"} =>
       /\ scraperRc = 0
       /\ pc \in {"scrape", "check", "build", "copy", "done"}
       /\ pc \in {"build", "copy", "done"} => "build" \in steps
       /\ Finished => ("copy" \in steps \/ (exitCode >= 1 /\ cIdx = 0))

\* a total failure met with an earlier scraped file in place, which the build
\* step would have accepted
C3_Witness ==
  /\ Finished
  /\ extraction = "failed"
  /\ exitCode = 1
  /\ scraped.exists
  /\ fetched = NumPairs * MaxAttempts

\* C4: while the script is in the build or the copy step no scraper is alive
\* and no fetch is in flight; a build that follows a scrape follows the
\* scraper's exit, and with --skip-scrape no fetch was started at all.
C4_Barrier ==
  /\ pc \in {"build", "copy"} => (~scraperUp /\ InFlight = {})
  /\ ("build" \in steps /\ ~args.skip) =>
       (extraction \in {"partial", "full"} /\ ~scraperUp)
  /\ ("build" \in steps /\ args.skip) =>
       (fetched = 0 /\ "scrape" \notin steps /\ ~scraperUp)

\* the build step entered after a scrape that needed a retry
C4_Witness ==
  /\ pc = "build"
  /\ "scrape" \in steps
  /\ fetched > NumPairs

C7_RebuildIsIdentical ==
  ( /\ Finished
    /\ exitCode = 0
    /\ args.skip
    /\ ~args.dry
    /\ run >= 2
    /\ \A d \in DocSet : prev.app[d].run = run - 1 /\ prev.app[d].input = scraped.id )
  => \A d \in DocSet : Bytes(appData[d]) = Bytes(prev.app[d])

C13_RetryOnceThenSkip ==
  /\ [](\A p \in Pairs :
          /\ attempts[p] <= 2
          /\ fetch[p] = "skipped" => attempts[p] = 2
          /\ fetch[p] \in {"inflight", "ok"} => attempts[p] >= 1)
  /\ [][ \A p \in Pairs :
           (scraperUp /\ scraperUp' /\ fetch[p] = "inflight"
              /\ fetch'[p] \notin {"inflight", "ok"}) =>
             /\ fetch'[p] = IF attempts[p] < 2 THEN "pending" ELSE "skipped"
             /\ \A q \in Pairs \ {p} :
                  fetch'[q] = fetch[q] /\ attempts'[q] = attempts[q] ]_vars
  /\ [][ (scraperUp /\ ~scraperUp' /\ extraction' # "crashed") =>
           \A p \in Pairs : fetch[p] \in {"ok", "skipped"} ]_vars

\* one pair skipped after its retry while another pair has been fetched
C13_Witness ==
  /\ scraperUp
  /\ \E p \in Pairs, q \in Pairs :
       /\ fetch[p] = "skipped"
       /\ attempts[p] = 2
       /\ fetch[q] = "ok"

\* C18: an invocation that ends well after its build step, app/dist being a
\* directory, leaves in app/dist/data the documents of app/public/data.
C18_DistServesPublished ==
  (Finished /\ exitCode = 0 /\ "build" \in steps /\ distDir) =>
     /\ distExists
     /\ \A d \in DocSet : Bytes(distData[d]) = Bytes(appData[d])

\* C19: an invocation with --skip-scrape (and no --dry-run) starts no scraper
\* and no fetch and leaves the scraped file alone; what it builds, it builds
\* from that file; and when the file is missing it enters neither the build
\* nor the copy step, changes no published file and ends with status 1.
C19_SkipScrapeBuildsFromExisting ==
  (args.skip /\ ~args.dry /\ pc # "idle") =>
     /\ fetched = 0
     /\ "scrape" \notin steps
     /\ ~scraperUp
     /\ scraped = prev.scraped
     /\ "build" \in steps =>
          /\ scraped.exists
          /\ \A d \in DocSet : appData[d].run = run => appData[d].input = scraped.id
     /\ ~scraped.exists =>
          /\ steps = {}
          /\ appData = prev.app
          /\ distData = prev.dist
          /\ Finished => exitCode = 1

\* --skip-scrape with no scraped file, after an earlier invocation
C19_Witness ==
  /\ Finished
  /\ args.skip
  /\ ~args.dry
  /\ ~scraped.exists
  /\ exitCode = 1
  /\ run = 2


(***************************************************************************)
(* useData and App.                                                        *)
(*                                                                         *)
(* The server's answer for a document is: no answer at all (the fetch      *)
(* rejects), or a status (res.ok or not) with a body, which is the         *)
(* document ("doc"), JSON that is not the document, such as an error       *)
(* object ("other"), or no JSON at all, such as an HTML page or a          *)
(* truncated file ("text").                                                *)
(***************************************************************************)
HookDocs == << "regional_dashboard.json", "commodity_comparison.json",
               "region_view.json", "summary_statistics.json" >>

HookFields == << "dashboard", "comparison", "regionView", "summary" >>

Slots == 1..Len(HookDocs)

Answer(net, ok, body) == [net |-> net, ok |-> ok, body |-> body]

WellFormed == Answer("up", TRUE, "doc")

Answers ==
  { WellFormed,
    Answer("up", TRUE, "other"), Answer("up", TRUE, "text"),
    Answer("up", FALSE, "other"), Answer("up", FALSE, "text"),
    Answer("down", FALSE, "text") }

\* the document is not there: no answer, or a status that is not OK
Missing(a) == a.net = "down" \/ ~a.ok

\* the document is there and is not what it should be
Malformed(a) == a.net = "up" /\ a.ok /\ a.body # "doc"

ErrorMessage == "Failed to load data. Please try again later."

\* useState<DataState>({ dashboard: [], comparison: {}, regionView: {},
\*                       summary: null, loading: true, error: null })
InitialData ==
  [dashboard |-> "empty", comparison |-> "empty", regionView |-> "empty",
   summary |-> "empty", loading |-> TRUE, error |-> "null"]

HookInit ==
  /\ served \in [Slots -> Answers]
  /\ data = InitialData
  /\ phase = "fetch"

\* a catch that records the error and leaves the spinner on
CatchDataStillLoading == [data EXCEPT !.error = ErrorMessage]

\* catch (err): setData(prev => ({ ...prev, loading: false, error: ... }))
CatchData == [data EXCEPT !.loading = FALSE, !.error = ErrorMessage]

\* await Promise.all([fetch(...), fetch(...), fetch(...), fetch(...)])
\* fetch rejects only when there is no answer; a status that is not OK resolves
FetchRejects(a) == a.net = "down"

FetchAll ==
  /\ phase = "fetch"
  /\ IF \E i \in Slots : FetchRejects(served[i])
       THEN data' = CatchData /\ phase' = "settled"
       ELSE data' = data /\ phase' = "json"
  /\ UNCHANGED <<served, pipeVars, fnVars, sectionVars>>

\* res.json() rejects when the body is not JSON, whatever the status
JsonRejects(a) == a.body = "text"

\* await Promise.all([dashboardRes.json(), ...]); setData({ ... })
JsonAll ==
  /\ phase = "json"
  /\ IF \E i \in Slots : JsonRejects(served[i])
       THEN data' = CatchData
       ELSE data' = [dashboard |-> served[1].body, comparison |-> served[2].body,
                     regionView |-> served[3].body, summary |-> served[4].body,
                     loading |-> FALSE, error |-> "null"]
  /\ phase' = "settled"
  /\ UNCHANGED <<served, pipeVars, fnVars, sectionVars>>

\* What App returns.  Hero reads summary.metadata and CategoryOverview calls
\* dashboard.filter: given JSON of another shape they throw while rendering.
Render ==
  IF data.loading THEN "loading"
  ELSE IF data.error # "null" THEN "retry"
  ELSE IF data.dashboard = "other" \/ data.summary = "other" THEN "crash"
  ELSE "sections"

\* Retry: onClick={() => window.location.reload()}
Reload ==
  /\ Render = "retry"
  /\ served' \in [Slots -> Answers]
  /\ data' = InitialData
  /\ phase' = "fetch"
  /\ UNCHANGED <<pipeVars, fnVars, sectionVars>>

HookNext ==
  \/ FetchAll
  \/ JsonAll
  \/ Reload

InitHook ==
  PipeQuiet /\ HookInit /\ PriceQuiet /\ VolQuiet /\ CmpQuiet /\ TopQuiet /\ SectionsQuiet

SpecHook == InitHook /\ [][HookNext]_vars

\* C1: when the load has settled and any of the four documents was missing
\* or malformed, useData is in the error state and App shows Retry.
C1_BadDocumentShowsRetry ==
  (phase = "settled" /\ \E i \in Slots : Missing(served[i]) \/ Malformed(served[i]))
  => (~data.loading /\ data.error # "null" /\ Render = "retry")


(***************************************************************************)
(* parsePrice (MarketComparison).  A cell is a string, here a sequence of  *)
(* characters; a number is m / 10^k with no trailing zero in its fraction. *)
(***************************************************************************)
Digits == << "0", "1", "2", "3", "4", "5", "6", "7", "8", "9" >>

IsDigit(c) == \E i \in 1..Len(Digits) : Digits[i] = c

DigitValue(c) == (CHOOSE i \in 1..Len(Digits) : Digits[i] = c) - 1

CellChars == { "0", "1", "5", ",", ".", "N", "/", "A", "*", " " }

RECURSIVE SeqsUpTo(_, _)
SeqsUpTo(S, n) ==
  IF n = 0 THEN { << >> }
  ELSE LET shorter == SeqsUpTo(S, n - 1)
       IN shorter \cup { Append(t, c) : t \in { u \in shorter : Len(u) = n - 1 }, c \in S }

Cells == SeqsUpTo(CellChars, MaxCell)

NotYet == << -1, -1 >>

NaN == << >>

RECURSIVE Normal(_, _)
Normal(m, k) ==
  IF k > 0 /\ m % 10 = 0 THEN Normal(m \div 10, k - 1) ELSE << m, k >>

RECURSIVE ToInt(_)
ToInt(ds) ==
  IF ds = << >> THEN 0
  ELSE 10 * ToInt(SubSeq(ds, 1, Len(ds) - 1)) + DigitValue(ds[Len(ds)])

RECURSIVE TakeDigits(_)
TakeDigits(t) ==
  IF t # << >> /\ IsDigit(Head(t)) THEN << Head(t) >> \o TakeDigits(Tail(t)) ELSE << >>

RECURSIVE SkipWhite(_)
SkipWhite(t) ==
  IF t # << >> /\ Head(t) = " " THEN SkipWhite(Tail(t)) ELSE t

\* parseFloat: leading white space is skipped, the longest prefix that is a
\* decimal literal is the value, whatever follows it is ignored; NaN when
\* there is no such prefix
parseFloat(t) ==
  LET u == SkipWhite(t)
      ip == TakeDigits(u)
      rest == SubSeq(u, Len(ip) + 1, Len(u))
      fp == IF rest # << >> /\ Head(rest) = "." THEN TakeDigits(Tail(rest)) ELSE << >>
  IN IF Len(ip) + Len(fp) = 0 THEN NaN
     ELSE Normal(ToInt(ip \o fp), Len(fp))

\* raw.replace(/,/g, "")
StripCommas(t) == SelectSeq(t, LAMBDA c : c # ",")

NA == << "N", "/", "A" >>

\* if (!raw || raw === "N/A") return null;
\* const n = parseFloat(raw.replace(/,/g, "")); return isNaN(n) ? null : n;
parsePrice(t) ==
  IF t = << >> \/ t = NA THEN Null
  ELSE LET n == parseFloat(StripCommas(t))
       IN IF n = NaN THEN Null ELSE Some(n)

PriceInit ==
  /\ raw \in Cells
  /\ parsed = NotYet

ParseCell ==
  /\ parsed = NotYet
  /\ parsed' = parsePrice(raw)
  /\ UNCHANGED <<raw, series, score, carried, trends, rows, dashboard,
                 mostVolatile, leastVolatile, pipeVars, hookVars, sectionVars>>

InitPrice ==
  PipeQuiet /\ HookQuiet /\ PriceInit /\ VolQuiet /\ CmpQuiet /\ TopQuiet /\ SectionsQuiet

PriceNext == ParseCell

SpecPrice == InitPrice /\ [][PriceNext]_vars

\* A cell that reads as a decimal number: digits with at most one point,
\* thousands separators and surrounding blanks allowed, nothing else.
RECURSIVE DropTrailingWhite(_)
DropTrailingWhite(t) ==
  IF t # << >> /\ t[Len(t)] = " " THEN DropTrailingWhite(SubSeq(t, 1, Len(t) - 1)) ELSE t

Bare(t) == DropTrailingWhite(SkipWhite(StripCommas(t)))

IsNumber(t) ==
  LET b == Bare(t)
  IN /\ \A i \in 1..Len(b) : IsDigit(b[i]) \/ b[i] = "."
     /\ Cardinality({ i \in 1..Len(b) : b[i] = "." }) <= 1
     /\ \E i \in 1..Len(b) : IsDigit(b[i])

NumberOf(t) ==
  LET b == Bare(t)
      dot == { i \in 1..Len(b) : b[i] = "." }
      k == IF dot = {} THEN 0 ELSE Len(b) - (CHOOSE i \in dot : TRUE)
  IN Normal(ToInt(SelectSeq(b, IsDigit)), k)

Zero == << 0, 0 >>

\* C6: parsePrice gives null, never a number, for an empty cell, an "N/A"
\* cell and a cell that does not read as a number; it gives 0, not null, for
\* the cell "0"; and it gives a cell that reads as a number, thousands
\* separators included, that number.
C6_MissingAndZeroDistinct ==
  parsed # NotYet =>
    /\ (raw = << >> \/ raw = NA \/ ~IsNumber(raw)) => parsed = Null
    /\ raw = << "0" >> => parsed = Some(Zero)
    /\ IsNumber(raw) => parsed = Some(NumberOf(raw))


(***************************************************************************)
(* volatility_score of a series: the bucket of the coefficient of          *)
(* variation (population standard deviation / mean) of its trailing priced *)
(* observations.  With S the sum and Q the sum of squares of n prices,     *)
(* CV^2 = (n*Q - S^2) / S^2, so CV is compared with p% by comparing        *)
(* (n*Q - S^2) * 10000 with p^2 * S^2.                                     *)
(***************************************************************************)
Centers == { 20, 40, 100 }

Deviations == { -3, -1, 0, 1, 3 }

Priced(obs) == SelectSeq(obs, LAMBDA o : o # Null)

\* the last w elements of a sequence
LastN(t, w) == IF Len(t) <= w THEN t ELSE SubSeq(t, Len(t) - w + 1, Len(t))

RECURSIVE SumOf(_)
SumOf(t) == IF t = << >> THEN 0 ELSE Head(t)[1] + SumOf(Tail(t))

RECURSIVE SumSquares(_)
SumSquares(t) == IF t = << >> THEN 0 ELSE Head(t)[1] * Head(t)[1] + SumSquares(Tail(t))

VolWindow(obs) == LastN(Priced(obs), VolatilityWindow)

\* n^2 * variance, and n^2 * mean^2, of the window
Spread2(obs) ==
  LET w == VolWindow(obs) IN Len(w) * SumSquares(w) - SumOf(w) * SumOf(w)

Mean2(obs) == LET w == VolWindow(obs) IN SumOf(w) * SumOf(w)

\* CV >= p%
CvAtLeast(obs, p) == Spread2(obs) * 10000 >= p * p * Mean2(obs)

\* CV > p%
CvAbove(obs, p) == Spread2(obs) * 10000 > p * p * Mean2(obs)

volatility_score_exclusive(obs) ==
  IF Len(VolWindow(obs)) < MinPoints THEN "Insufficient Data"
  ELSE IF CvAbove(obs, 10) THEN "Very High"
  ELSE IF CvAbove(obs, 5) THEN "High"
  ELSE IF CvAbove(obs, 2) THEN "Moderate"
  ELSE "Low"

volatility_score(obs) ==
  IF Len(VolWindow(obs)) < MinPoints THEN "Insufficient Data"
  ELSE IF CvAtLeast(obs, 10) THEN "Very High"
  ELSE IF CvAtLeast(obs, 5) THEN "High"
  ELSE IF CvAtLeast(obs, 2) THEN "Moderate"
  ELSE "Low"

VolInit ==
  /\ \E c \in Centers :
       series \in SeqsUpTo({ Null } \cup { Some(c + d) : d \in Deviations }, MaxPoints)
  /\ score = ""

ScoreSeries ==
  /\ score = ""
  /\ score' = volatility_score(series)
  /\ UNCHANGED <<raw, parsed, series, carried, trends, rows, dashboard,
                 mostVolatile, leastVolatile, pipeVars, hookVars, sectionVars>>

InitVol ==
  PipeQuiet /\ HookQuiet /\ PriceQuiet /\ VolInit /\ CmpQuiet /\ TopQuiet /\ SectionsQuiet

VolNext == ScoreSeries

SpecVol == InitVol /\ [][VolNext]_vars

Scores == { "Low", "Moderate", "High", "Very High", "Insufficient Data" }

\* CV = p%
CvExactly(obs, p) == Spread2(obs) * 10000 = p * p * Mean2(obs)

RegionNames == << "BARMM", "CAR", "NCR", "Region I", "Region II" >>

Regions == { RegionNames[i] : i \in 1..NumRegions }

\* position of a region name in lexical order
NameRank(r) == CHOOSE i \in 1..Len(RegionNames) : RegionNames[i] = r

LatestPrices == { 40, 50 }

Trend(r, p) == [region |-> r, latest_price |-> p]

\* ascending latest price, ties by region name
RanksBefore(a, b) ==
  \/ a.latest_price < b.latest_price
  \/ a.latest_price = b.latest_price /\ NameRank(a.region) < NameRank(b.region)

RECURSIVE InsertRanked(_, _)
InsertRanked(x, t) ==
  IF t = << >> THEN << x >>
  ELSE IF RanksBefore(x, Head(t)) THEN << x >> \o t
  ELSE << Head(t) >> \o InsertRanked(x, Tail(t))

RECURSIVE RankRegions(_)
RankRegions(t) ==
  IF t = << >> THEN << >> ELSE InsertRanked(Head(t), RankRegions(Tail(t)))

\* const isCheapest = index === 0;
isCheapest(index) == index = 0

\* const isMostExpensive = index === selectedData.regional_trends.length - 1;
isMostExpensiveOffByOne(index, length) == index = length
isMostExpensive(index, length) == index = length - 1

\* selectedData.regional_trends.map((region, index) => <tr> ... </tr>)
TableRows(list) ==
  [i \in 1..Len(list) |->
     [region |-> list[i].region,
      latest_price |-> list[i].latest_price,
      cheapest |-> isCheapest(i - 1),
      mostExpensive |-> isMostExpensive(i - 1, Len(list))]]

CmpInit ==
  /\ carried \in { t \in SeqsUpTo({ Trend(r, p) : r \in Regions, p \in LatestPrices },
                                  NumRegions) :
                     /\ t # << >>
                     /\ \A i, j \in 1..Len(t) : i # j => t[i].region # t[j].region }
  /\ trends = << >>
  /\ rows = << >>

BuildComparison ==
  /\ trends = << >>
  /\ trends' = RankRegions(carried)
  /\ UNCHANGED <<raw, parsed, series, score, carried, rows, dashboard,
                 mostVolatile, leastVolatile, pipeVars, hookVars, sectionVars>>

RenderComparison ==
  /\ trends # << >>
  /\ rows = << >>
  /\ rows' = TableRows(trends)
  /\ UNCHANGED <<raw, parsed, series, score, carried, trends, dashboard,
                 mostVolatile, leastVolatile, pipeVars, hookVars, sectionVars>>

InitCmp ==
  PipeQuiet /\ HookQuiet /\ PriceQuiet /\ VolQuiet /\ CmpInit /\ TopQuiet /\ SectionsQuiet

CmpNext ==
  \/ BuildComparison
  \/ RenderComparison

SpecCmp == InitCmp /\ [][CmpNext]_vars

\* C9: the rendered rows are the carrying regions, each once, in ascending
\* order of latest price with equal prices in region-name order; the row
\* badged Cheapest is the first and has the lowest price, the row badged Most
\* Expensive is the last and has the highest.
C9_RankedAndBadged ==
  rows # << >> =>
    /\ Len(rows) = Len(carried)
    /\ \A i \in 1..Len(carried) :
         \E j \in 1..Len(rows) :
           rows[j].region = carried[i].region /\ rows[j].latest_price = carried[i].latest_price
    /\ \A i, j \in 1..Len(rows) :
         i < j =>
           \/ rows[i].latest_price < rows[j].latest_price
           \/ /\ rows[i].latest_price = rows[j].latest_price
              /\ NameRank(rows[i].region) < NameRank(rows[j].region)
    /\ \A i \in 1..Len(rows) : rows[i].cheapest <=> i = 1
    /\ \A i \in 1..Len(rows) : rows[i].mostExpensive <=> i = Len(rows)
    /\ \A i, j \in 1..Len(rows) :
         /\ rows[i].cheapest => rows[i].latest_price <= rows[j].latest_price
         /\ rows[i].mostExpensive => rows[i].latest_price >= rows[j].latest_price

\* three regions at 50, 40 and 40: the two at 40 come first, in name order
C9_Witness ==
  /\ carried = << Trend("BARMM", 50), Trend("NCR", 40), Trend("CAR", 40) >>
  /\ Len(rows) = 3
  /\ rows[1].region = "CAR" /\ rows[1].cheapest
  /\ rows[2].region = "NCR"
  /\ rows[3].region = "BARMM" /\ rows[3].mostExpensive


(***************************************************************************)
(* VolatilityAnalysis: the "Most Volatile" and "Most Stable" lists.  A     *)
(* record is [id, volatility_value], id being its position in the          *)
(* dashboard; Array.prototype.sort is stable.                              *)
(***************************************************************************)
VolatilityValues == { Null, Some(0), Some(1), Some(2) }

Item(i, v) == [id |-> i, volatility_value |-> v]

\* the records after the freely drawn ones: TopN of them, values 0 and 1 in turn
TailValue(i) == Some(i % 2)

\* d.volatility_value !== null
KeepAll(d) == TRUE
HasVolatility(d) == d.volatility_value # Null

\* (x.volatility_value || 0)
OrZero(v) == IF v = Null THEN 0 ELSE v[1]

\* (a, b) => (b.volatility_value || 0) - (a.volatility_value || 0)
Descending(a, b) == OrZero(b.volatility_value) - OrZero(a.volatility_value)

\* (a, b) => (a.volatility_value || 0) - (b.volatility_value || 0)
Ascending(a, b) == OrZero(a.volatility_value) - OrZero(b.volatility_value)

\* stable sort: x goes behind every element it does not have to precede
RECURSIVE InsertStable(_, _, _)
InsertStable(cmp(_, _), t, x) ==
  IF t = << >> THEN << x >>
  ELSE IF cmp(t[Len(t)], x) <= 0 THEN Append(t, x)
  ELSE Append(InsertStable(cmp, SubSeq(t, 1, Len(t) - 1), x), t[Len(t)])

RECURSIVE SortStable(_, _)
SortStable(cmp(_, _), t) ==
  IF t = << >> THEN << >>
  ELSE InsertStable(cmp, SortStable(cmp, SubSeq(t, 1, Len(t) - 1)), t[Len(t)])

\* .slice(0, n)
Slice0(t, n) == IF Len(t) <= n THEN t ELSE SubSeq(t, 1, n)

\* dashboard.filter(...).sort(...).slice(0, 10)
MostVolatileOf(list) == Slice0(SortStable(Descending, SelectSeq(list, HasVolatility)), TopN)

LeastVolatileOf(list) == Slice0(SortStable(Ascending, SelectSeq(list, HasVolatility)), TopN)

Unlisted == << Item(0, Null) >>

TopInit ==
  /\ \E head \in SeqsUpTo(VolatilityValues, MaxItems), pad \in { 0, TopN } :
       dashboard = [i \in 1..(Len(head) + pad) |->
                      Item(i, IF i <= Len(head) THEN head[i] ELSE TailValue(i))]
  /\ mostVolatile = Unlisted
  /\ leastVolatile = Unlisted

\* the section renders: both useMemo lists are computed from the dashboard
RenderVolatility ==
  /\ mostVolatile = Unlisted
  /\ mostVolatile' = MostVolatileOf(dashboard)
  /\ leastVolatile' = LeastVolatileOf(dashboard)
  /\ UNCHANGED <<raw, parsed, series, score, carried, trends, rows, dashboard,
                 pipeVars, hookVars, sectionVars>>

InitTop ==
  PipeQuiet /\ HookQuiet /\ PriceQuiet /\ VolQuiet /\ CmpQuiet /\ TopInit /\ SectionsQuiet

TopNext == RenderVolatility

SpecTop == InitTop /\ [][TopNext]_vars

WithValue == { i \in 1..Len(dashboard) : dashboard[i].volatility_value # Null }

Min(a, b) == IF a <= b THEN a ELSE b

\* `list` holds records of the dashboard that have a value, each at most
\* once, as many as there are up to TopN
ListsRecords(list) ==
  /\ Len(list) = Min(TopN, Cardinality(WithValue))
  /\ \A k \in 1..Len(list) :
       /\ list[k].volatility_value # Null
       /\ list[k].id \in WithValue
       /\ dashboard[list[k].id] = list[k]
  /\ \A k, l \in 1..Len(list) : k # l => list[k].id # list[l].id

\* `list` is in the order of cmp, records that compare equal in input order,
\* and no record left out would have to come before one that is listed
OrderedFirstSeen(cmp(_, _), list) ==
  /\ \A k, l \in 1..Len(list) :
       k < l =>
         \/ cmp(list[k], list[l]) < 0
         \/ cmp(list[k], list[l]) = 0 /\ list[k].id < list[l].id
  /\ \A i \in WithValue :
       (\A k \in 1..Len(list) : list[k].id # i) =>
         \A k \in 1..Len(list) :
           \/ cmp(list[k], dashboard[i]) < 0
           \/ cmp(list[k], dashboard[i]) = 0 /\ list[k].id < i

\* C10: the two lists hold no record with a null volatility value, are ordered
\* by volatility value (descending for the most volatile, ascending for the
\* most stable), keep records of equal value in their input order, and are
\* the first TopN records in that order.
C10_TopListsFirstSeen ==
  mostVolatile # Unlisted =>
    /\ ListsRecords(mostVolatile)
    /\ ListsRecords(leastVolatile)
    /\ OrderedFirstSeen(Descending, mostVolatile)
    /\ OrderedFirstSeen(Ascending, leastVolatile)

\* more than TopN records with a value, a null among the records, and a tie
\* at the cut: the tenth listed record and a record left out have one value
C10_Witness ==
  /\ mostVolatile # Unlisted
  /\ Len(mostVolatile) = TopN
  /\ Cardinality(WithValue) > TopN
  /\ \E i \in 1..Len(dashboard) : dashboard[i].volatility_value = Null
  /\ \E i \in WithValue :
       /\ \A k \in 1..TopN : mostVolatile[k].id # i
       /\ dashboard[i].volatility_value = mostVolatile[TopN].volatility_value
  /\ \E k \in 1..(TopN - 1) :
       mostVolatile[k].volatility_value = mostVolatile[k + 1].volatility_value

(***************************************************************************)
(* MarketComparison: loadData and what the section renders.                *)
(*                                                                         *)
(* A market-comparison document is the sequence of its regions (the order  *)
(* of Object.keys), each with the sequence of its categories; JSON without *)
(* a regions object has kind "other".                                      *)
(***************************************************************************)
MarketRegionNames == { "CAR", "NCR" }

MarketCategoryNames == { "FISH", "RICE" }

CategoryLists == { << >>, << "RICE" >>, << "FISH", "RICE" >> }

RegionEntry(r, cats) == [region |-> r, categories |-> cats]

RegionLists ==
  { << >> }
  \cup { << RegionEntry(r, c) >> : r \in MarketRegionNames, c \in CategoryLists }
  \cup UNION { { << RegionEntry(r1, c1), RegionEntry(r2, c2) >> :
                   r2 \in MarketRegionNames \ {r1},
                   c1 \in CategoryLists, c2 \in CategoryLists } :
                 r1 \in MarketRegionNames }

MarketDocument(rs) == [kind |-> "doc", regions |-> rs]

OtherJson == [kind |-> "other", regions |-> << >>]

NoJson == [kind |-> "text", regions |-> << >>]

\* what the server answers to GET /data/market_comparison_data.json
Response(net, ok, body) == [net |-> net, ok |-> ok, body |-> body]

Bodies == { MarketDocument(rs) : rs \in RegionLists } \cup { OtherJson, NoJson }

Responses ==
  { Response("up", ok, b) : ok \in BOOLEAN, b \in Bodies }
  \cup { Response("down", FALSE, NoJson) }

\* a load in flight: the answer it will get and the callback it waits for
Load(res, at) == [res |-> res, at |-> at]

RemoveAt(q, i) == SubSeq(q, 1, i - 1) \o SubSeq(q, i + 1, Len(q))

\* const loadData = () => { setLoading(true); setError(null); fetch(...) ... }
loadData(res) ==
  /\ loading' = TRUE
  /\ error' = "null"
  /\ pending' = Append(pending, Load(res, "fetch"))

\* the effect without its empty dependency list: it runs after every render
MountEveryRender ==
  /\ mounted' = TRUE
  /\ \E res \in Responses : loadData(res)
  /\ UNCHANGED <<marketData, selectedRegion, selectedCategory>>
  /\ UNCHANGED <<pipeVars, hookVars, fnVars, viewVars, styleVars, publishVars,
                 averageVars, changeVars, storeVars>>

\* useEffect(() => { loadData(); }, [])
Mount ==
  /\ mounted = FALSE
  /\ mounted' = TRUE
  /\ \E res \in Responses : loadData(res)
  /\ UNCHANGED <<marketData, selectedRegion, selectedCategory>>
  /\ UNCHANGED <<pipeVars, hookVars, fnVars, viewVars, styleVars, publishVars,
                 averageVars, changeVars, storeVars>>

\* .catch((err) => { setError(`Failed to load market data: ...`); setLoading(false); })
CatchLoad ==
  /\ error' = "Failed to load market data"
  /\ loading' = FALSE

\* if (!res.ok) throw new Error(`HTTP ${res.status}`)
HttpErrorIgnored(res) == FALSE
HttpError(res) == ~res.ok

\* the fetch settles: it rejects, or the first .then runs
Responded(i) ==
  /\ i \in 1..Len(pending)
  /\ pending[i].at = "fetch"
  /\ IF pending[i].res.net = "down" \/ HttpError(pending[i].res)
       THEN /\ CatchLoad
            /\ pending' = RemoveAt(pending, i)
       ELSE /\ pending' = [pending EXCEPT ![i].at = "json"]
            /\ UNCHANGED <<loading, error>>
  /\ UNCHANGED <<mounted, marketData, selectedRegion, selectedCategory>>
  /\ UNCHANGED <<pipeVars, hookVars, fnVars, viewVars, styleVars, publishVars,
                 averageVars, changeVars, storeVars>>

\* res.json() settles: it rejects, or the second .then runs
\*   setMarketData(data); const regions = Object.keys(data.regions); ...
Parsed(i) ==
  /\ i \in 1..Len(pending)
  /\ pending[i].at = "json"
  /\ pending' = RemoveAt(pending, i)
  /\ LET body == pending[i].res.body
     IN CASE body.kind = "text" ->
               \* SyntaxError
               /\ CatchLoad
               /\ UNCHANGED <<marketData, selectedRegion, selectedCategory>>
          [] body.kind = "other" ->
               \* Object.keys(undefined) throws after setMarketData(data)
               /\ marketData' = Some(body)
               /\ CatchLoad
               /\ UNCHANGED <<selectedRegion, selectedCategory>>
          [] OTHER ->
               /\ marketData' = Some(body)
               /\ IF Len(body.regions) > 0
                    THEN /\ selectedRegion' = body.regions[1].region
                         /\ selectedCategory' =
                              IF Len(body.regions[1].categories) > 0
                                THEN body.regions[1].categories[1]
                                ELSE selectedCategory
                    ELSE UNCHANGED <<selectedRegion, selectedCategory>>
               /\ loading' = FALSE
               /\ UNCHANGED error
  /\ UNCHANGED mounted
  /\ UNCHANGED <<pipeVars, hookVars, fnVars, viewVars, styleVars, publishVars,
                 averageVars, changeVars, storeVars>>

\* if (loading) return <spinner>; if (error) return <error with Retry>; ...
RenderMarket ==
  IF loading THEN "loading"
  ELSE IF error # "null" THEN "error"
  ELSE "table"

\* <Button onClick={loadData}>Retry</Button>
Retry ==
  /\ mounted
  /\ RenderMarket = "error"
  /\ \E res \in Responses : loadData(res)
  /\ UNCHANGED <<mounted, marketData, selectedRegion, selectedCategory>>
  /\ UNCHANGED <<pipeVars, hookVars, fnVars, viewVars, styleVars, publishVars,
                 averageVars, changeVars, storeVars>>

\* the keys of marketData.regions, in the order of the document
availableRegions ==
  IF marketData # Null /\ marketData[1].kind = "doc"
    THEN [i \in 1..Len(marketData[1].regions) |-> marketData[1].regions[i].region]
    ELSE << >>

\* Object.keys(marketData?.regions[region] ?? {})
CategoriesOf(region) ==
  IF marketData # Null /\ marketData[1].kind = "doc"
       /\ \E i \in 1..Len(marketData[1].regions) : marketData[1].regions[i].region = region
    THEN LET i == CHOOSE j \in 1..Len(marketData[1].regions) :
                    marketData[1].regions[j].region = region
         IN marketData[1].regions[i].categories
    ELSE << >>

\* if (!marketData || !selectedRegion) return []; Object.keys(... ?? {})
availableCategories ==
  IF selectedRegion = "" THEN << >> ELSE CategoriesOf(selectedRegion)

\* a region change that leaves the category as it was
KeptCategory(region) == selectedCategory

\* cats[0] ?? ""
FirstCategory(region) ==
  IF Len(CategoriesOf(region)) > 0 THEN CategoriesOf(region)[1] ELSE ""

\* a region change that leaves the search text as it was
SearchKept == searchQuery

\* setSearchQuery("")
SearchCleared == << >>

\* the controls exist only in the last branch of the render
ControlsShown == mounted /\ RenderMarket = "table"

\* <Select value={selectedRegion} onValueChange={handleRegionChange}>: an
\* item of the list is chosen
handleRegionChange(region) ==
  /\ ControlsShown
  /\ \E i \in 1..Len(availableRegions) : availableRegions[i] = region
  /\ selectedRegion' = region
  /\ searchQuery' = SearchCleared
  /\ selectedCategory' = FirstCategory(region)
  /\ UNCHANGED <<mounted, pending, marketData, loading, error, sortBy, showTopSpread>>
  /\ UNCHANGED <<pipeVars, hookVars, fnVars, tableVars, rankVars, styleVars,
                 publishVars, averageVars, changeVars, storeVars>>

\* <Select value={selectedCategory} onValueChange={setSelectedCategory}>
CategoryChange(category) ==
  /\ ControlsShown
  /\ \E i \in 1..Len(availableCategories) : availableCategories[i] = category
  /\ selectedCategory' = category
  /\ UNCHANGED <<mounted, pending, marketData, selectedRegion, loading, error,
                 controlVars>>
  /\ UNCHANGED <<pipeVars, hookVars, fnVars, tableVars, rankVars, styleVars,
                 publishVars, averageVars, changeVars, storeVars>>

\* the load has ended with the document in place and no error
Loaded == ~loading /\ error = "null" /\ marketData # Null /\ marketData[1].kind = "doc"

Failed == ~loading /\ error # "null"

\* C11: a load whose fetch rejects or is answered with a status that is not
\* OK ends with the section showing the error and Retry; Retry starts a load
\* that clears the error and shows the spinner; a section that is loading
\* has a load in flight and comes to rest, and at rest it shows either the
\* table of the loaded document or the error, never both.
C11_LoadEndsLoadedOrError ==
  /\ [][ \A i \in 1..Len(pending) :
           (Len(pending') < Len(pending) /\ pending' = RemoveAt(pending, i)
              /\ (pending[i].res.net = "down" \/ ~pending[i].res.ok)) =>
             (Failed' /\ RenderMarket' = "error") ]_vars
  /\ [][ (RenderMarket = "error" /\ loading') =>
           /\ error' = "null"
           /\ Len(pending') = Len(pending) + 1
           /\ RenderMarket' = "loading" ]_vars
  /\ [](mounted => (loading <=> pending # << >>))
  /\ [](mounted /\ ~loading => (Loaded \/ Failed) /\ ~(Loaded /\ Failed))
  /\ ((mounted /\ loading) ~> ~loading)

\* Retry pressed after a failed load: the spinner shows, the error is
\* cleared, and the new load will be answered with a status that is not OK
C11_Witness ==
  /\ mounted
  /\ RenderMarket = "loading"
  /\ marketData = Some(OtherJson)
  /\ Len(pending) = 1
  /\ pending[1].res.net = "up"
  /\ ~pending[1].res.ok

(***************************************************************************)
(* The Publisher: it takes the documents of the View Builder in turn,      *)
(* writes each one that serializes and notes each one that does not.       *)
(***************************************************************************)
Serializes(d) == d \notin unserializable

\* the document the publisher turns to after document i
NextDocumentOrGiveUp(i, ok) == IF ok THEN i + 1 ELSE Len(Docs)
NextDocument(i, ok) == i + 1

PublishInit ==
  /\ unserializable \in SUBSET DocSet
  /\ pubIdx = 0
  /\ written = {}
  /\ report = {}

PublishDocument ==
  /\ pubIdx < Len(Docs)
  /\ LET d == Docs[pubIdx + 1]
     IN /\ IF Serializes(d)
             THEN written' = written \cup {d} /\ report' = report
             ELSE written' = written /\ report' = report \cup {d}
        /\ pubIdx' = NextDocument(pubIdx, Serializes(d))
  /\ UNCHANGED unserializable
  /\ UNCHANGED <<pipeVars, hookVars, fnVars, viewVars, marketVars, styleVars, averageVars,
                 changeVars, storeVars>>

PublishDone == pubIdx = Len(Docs)

InitPublish ==
  /\ PipeQuiet /\ HookQuiet /\ PriceQuiet /\ VolQuiet /\ CmpQuiet /\ TopQuiet
  /\ ViewQuiet /\ MarketQuiet /\ StyleQuiet /\ PublishInit /\ AverageQuiet /\ ChangeQuiet
  /\ StoreQuiet

PublishNext == PublishDocument

SpecPublish == InitPublish /\ [][PublishNext]_vars

\* C14: when the publisher is done, every document that serializes has been
\* written, whatever the other documents did, and the documents it reports
\* as failed are exactly those that do not serialize; before that, the same
\* holds of the documents it has dealt with.
C14_OtherDocumentsStillWritten ==
  /\ \A k \in 1..Len(Docs) :
       k <= pubIdx =>
         /\ Docs[k] \in written <=> Docs[k] \notin unserializable
         /\ Docs[k] \in report <=> Docs[k] \in unserializable
  /\ pubIdx = Len(Docs) =>
       /\ written = DocSet \ unserializable
       /\ report = unserializable

\* the publisher is done, one document in the middle of the set having failed
C14_Witness ==
  /\ PublishDone
  /\ unserializable = { "commodity_comparison.json" }
  /\ Cardinality(written) = Len(Docs) - 1
  /\ report = { "commodity_comparison.json" }

(***************************************************************************)
(* The Aggregator's moving average.  The mean is kept as the pair          *)
(* << sum, count >> of the observations it is taken over.                  *)
(***************************************************************************)
PointPrices == { 10, 12, 20 }

\* the last W observations, priced or not (a window of calendar days)
moving_average_of_last_rows(obs, W) ==
  LET w == Priced(LastN(obs, W))
  IN IF w = << >> THEN Null ELSE Some(<< SumOf(w), Len(w) >>)

\* mean of the last W observations with a non-null price
moving_average(obs, W) ==
  LET w == LastN(Priced(obs), W)
  IN IF w = << >> THEN Null ELSE Some(<< SumOf(w), Len(w) >>)

AverageInit ==
  /\ points \in SeqsUpTo({ Null } \cup { Some(p) : p \in PointPrices }, MaxPoints)
  /\ window \in 1..MaxWindow
  /\ average = NotYet

Average ==
  /\ average = NotYet
  /\ average' = moving_average(points, window)
  /\ UNCHANGED <<points, window>>
  /\ UNCHANGED <<pipeVars, hookVars, fnVars, viewVars, marketVars, styleVars, publishVars,
                 changeVars, storeVars>>

InitAverage ==
  /\ PipeQuiet /\ HookQuiet /\ PriceQuiet /\ VolQuiet /\ CmpQuiet /\ TopQuiet
  /\ ViewQuiet /\ MarketQuiet /\ StyleQuiet /\ PublishQuiet /\ AverageInit /\ ChangeQuiet
  /\ StoreQuiet

AverageNext == Average

SpecAverage == InitAverage /\ [][AverageNext]_vars

\* the positions of the series that carry a price
PricedAt == { i \in 1..Len(points) : points[i] # Null }

\* the positions the average is taken over: the last `window` priced ones
Taken == { i \in PricedAt : Cardinality({ j \in PricedAt : j > i }) < window }

RECURSIVE SumAt(_)
SumAt(S) ==
  IF S = {} THEN 0
  ELSE LET i == CHOOSE j \in S : TRUE IN points[i][1] + SumAt(S \ {i})

ChangePrices == { 98, 100 }

Observation(d, p) == [date |-> d, price |-> p]

\* the series of at most n observations dated in 1..last, dates increasing
RECURSIVE SeriesUpTo(_, _)
SeriesUpTo(last, n) ==
  IF n = 0 THEN { << >> }
  ELSE LET shorter == SeriesUpTo(last, n - 1)
       IN shorter \cup
          UNION { { Append(s, Observation(d, p)) :
                      d \in (IF s = << >> THEN 1 ELSE s[Len(s)].date + 1)..last,
                      p \in { Null } \cup { Some(c) : c \in ChangePrices } } :
                  s \in { u \in shorter : Len(u) = n - 1 } }

\* the observation the latest one is compared with: the latest observation
\* dated N days before it or earlier (nearest neighbour)
comparison_point_nearest(s, N) ==
  LET at == { i \in 1..Len(s) : s[i].date <= s[Len(s)].date - N }
  IN IF at = {} THEN Null
     ELSE Some(s[CHOOSE i \in at : \A j \in at : j <= i])

\* the observation dated exactly N days before the latest one
comparison_point(s, N) ==
  LET at == { i \in 1..Len(s) : s[i].date = s[Len(s)].date - N }
  IN IF at = {} THEN Null ELSE Some(s[CHOOSE i \in at : TRUE])

\* (Price_today - Price_Nd_ago) / Price_Nd_ago x 100
change_pct(s, N) ==
  IF s = << >> THEN Null
  ELSE LET today == s[Len(s)]
           ago == comparison_point(s, N)
       IN IF today.price = Null \/ ago = Null THEN Null
          ELSE IF ago[1].price = Null \/ ago[1].price = Some(0) THEN Null
          ELSE Some(<< (today.price[1] - ago[1].price[1]) * 100, ago[1].price[1] >>)

ChangeInit ==
  /\ history \in SeriesUpTo(MaxDay, MaxObs)
  /\ change_7d_pct = NotYet

Change7d ==
  /\ change_7d_pct = NotYet
  /\ change_7d_pct' = change_pct(history, ChangeDays)
  /\ UNCHANGED history
  /\ UNCHANGED <<pipeVars, hookVars, fnVars, viewVars, marketVars, styleVars, publishVars,
                 averageVars, storeVars>>

InitChange ==
  /\ PipeQuiet /\ HookQuiet /\ PriceQuiet /\ VolQuiet /\ CmpQuiet /\ TopQuiet
  /\ ViewQuiet /\ MarketQuiet /\ StyleQuiet /\ PublishQuiet /\ AverageQuiet /\ ChangeInit
  /\ StoreQuiet

ChangeNext == Change7d

SpecChange == InitChange /\ [][ChangeNext]_vars

LatestDate == history[Len(history)].date

\* the priced observations dated exactly 7 days before the latest date
SevenDaysAgo ==
  { i \in 1..Len(history) :
      history[i].date = LatestDate - 7 /\ history[i].price # Null }

\* C16: the 7-day change of a series is None whenever no priced observation
\* is dated exactly 7 days before the latest date, whatever is dated 6 or 8
\* days before it; and when it is not None it is the change from that very
\* observation to the latest one.
C16_ChangeFromExactDateOnly ==
  (change_7d_pct # NotYet /\ history # << >>) =>
    /\ SevenDaysAgo = {} => change_7d_pct = Null
    /\ change_7d_pct # Null =>
         \E i \in SevenDaysAgo :
           /\ history[Len(history)].price # Null
           /\ change_7d_pct[1][2] = history[i].price[1]
           /\ change_7d_pct[1][1] =
                (history[Len(history)].price[1] - history[i].price[1]) * 100
    /\ (SevenDaysAgo # {} /\ history[Len(history)].price # Null) =>
         change_7d_pct # Null

\* no observation 7 days before the latest, priced ones 6 and 8 days before
C16_Witness ==
  /\ change_7d_pct = Null
  /\ Len(history) = 3
  /\ history[3].price # Null
  /\ history[2].date = history[3].date - 6
  /\ history[2].price # Null
  /\ history[1].date = history[3].date - 8
  /\ history[1].price # Null

(***************************************************************************)
(* The accumulated Observation history of one (region, category,           *)
(* commodity): every run adds the observation of its reference date.       *)
(***************************************************************************)
StoredPrices == { 10, 20 }

RunDates == 1..MaxDates

\* the observation of a date already in the series is kept
upsert_first_wins(s, o) ==
  IF \E i \in 1..Len(s) : s[i].date = o.date THEN s
  ELSE SelectSeq(s, LAMBDA x : x.date < o.date) \o << o >>
         \o SelectSeq(s, LAMBDA x : x.date > o.date)

\* the observation takes its place by date, instead of any of the same date
upsert(s, o) ==
  SelectSeq(s, LAMBDA x : x.date < o.date) \o << o >>
    \o SelectSeq(s, LAMBDA x : x.date > o.date)

NeverWritten == [price |-> Null, count |-> 0]

StoreInit ==
  /\ store = << >>
  /\ lastWrite = [d \in RunDates |-> NeverWritten]

\* a run for reference date d extracts price p (Null: the cell did not parse)
RunFor(d, p) ==
  /\ lastWrite[d].count < MaxWrites
  /\ store' = upsert(store, Observation(d, p))
  /\ lastWrite' = [lastWrite EXCEPT ![d] = [price |-> p, count |-> @.count + 1]]
  /\ UNCHANGED <<pipeVars, hookVars, fnVars, viewVars, marketVars, styleVars, publishVars,
                 averageVars, changeVars>>

InitStore ==
  /\ PipeQuiet /\ HookQuiet /\ PriceQuiet /\ VolQuiet /\ CmpQuiet /\ TopQuiet
  /\ ViewQuiet /\ MarketQuiet /\ StyleQuiet /\ PublishQuiet /\ AverageQuiet /\ ChangeQuiet
  /\ StoreInit

StoreNext ==
  \E d \in RunDates, p \in { Null } \cup { Some(c) : c \in StoredPrices } : RunFor(d, p)

SpecStore == InitStore /\ [][StoreNext]_vars

\* C17: the dates of the series are strictly increasing, so none is repeated;
\* the series holds a date exactly when a run wrote it; and the observation
\* it holds for a date is the one written last.
C17_SeriesIncreasingLastWriteWins ==
  /\ \A i \in 1..Len(store), j \in 1..Len(store) :
       i < j => store[i].date < store[j].date
  /\ \A d \in RunDates :
       lastWrite[d].count > 0 <=> \E i \in 1..Len(store) : store[i].date = d
  /\ \A i \in 1..Len(store) :
       /\ store[i].date \in RunDates
       /\ store[i].price = lastWrite[store[i].date].price

\* two runs for one reference date, a later date being in the series too
C17_Witness ==
  /\ Len(store) = 2
  /\ lastWrite[store[1].date].count = 2
  /\ lastWrite[store[2].date].count = 1
  /\ store[1].price = Some(20)

(***************************************************************************)
(* The cells of a row of the market comparison table: getPriceStats,       *)
(* cellClass and the cell the table renders.                               *)
(***************************************************************************)
RowCells ==
  { NA, << >>, << "1" >>, << "5" >>, << "1", "0" >>, << "1", ".", "0" >>,
    << "1", "5" >> }

RECURSIVE Pow10(_)
Pow10(k) == IF k = 0 THEN 1 ELSE 10 * Pow10(k - 1)

\* a < b, for numbers m / 10^k
Less(a, b) == a[1] * Pow10(b[2]) < b[1] * Pow10(a[2])

\* prices.map(parsePrice).filter((n) => n !== null)
Nums(ps) ==
  LET parsedCells == [i \in 1..Len(ps) |-> parsePrice(ps[i])]
      kept == SelectSeq(parsedCells, LAMBDA n : n # Null)
  IN [i \in 1..Len(kept) |-> kept[i][1]]

\* Math.min(...nums), Math.max(...nums)
MathMin(nums) == CHOOSE x \in { nums[i] : i \in 1..Len(nums) } :
                   \A i \in 1..Len(nums) : ~Less(nums[i], x)

MathMax(nums) == CHOOSE x \in { nums[i] : i \in 1..Len(nums) } :
                   \A i \in 1..Len(nums) : ~Less(x, nums[i])

\* if (nums.length === 0) return null; return { min, max, ..., count }
getPriceStats(ps) ==
  LET nums == Nums(ps)
  IN IF Len(nums) = 0 THEN Null
     ELSE Some([min |-> MathMin(nums), max |-> MathMax(nums), count |-> Len(nums)])

ClassMissing == "text-slate-300 italic"

ClassNoStats == "text-slate-900"

ClassLowest == "text-emerald-700 font-semibold bg-emerald-50 rounded px-1"

ClassHighest == "text-red-600 font-semibold bg-red-50 rounded px-1"

ClassOther == "text-slate-800"

cellClass(price, ps) ==
  LET n == parsePrice(price)
      stats == getPriceStats(ps)
  IN IF n = Null THEN ClassMissing
     ELSE IF stats = Null THEN ClassNoStats
     ELSE IF n[1] = stats[1].min THEN ClassLowest
     ELSE IF n[1] = stats[1].max THEN ClassHighest
     ELSE ClassOther

\* price === "N/A" ? <span className="text-slate-300 text-sm"> : cellClass(...)
ClassDash == "text-slate-300 text-sm"

CellStyle(price, ps) == IF price = NA THEN ClassDash ELSE cellClass(price, ps)

Unstyled == << "" >>

StyleInit ==
  /\ prices \in SeqsUpTo(RowCells, MaxMarkets)
  /\ classes = Unstyled

\* item.prices.map((price, colIdx) => <TableCell> ... </TableCell>)
RenderRow ==
  /\ classes = Unstyled
  /\ classes' = [i \in 1..Len(prices) |-> CellStyle(prices[i], prices)]
  /\ UNCHANGED prices
  /\ UNCHANGED <<pipeVars, hookVars, fnVars, viewVars, marketVars, publishVars,
                 averageVars, changeVars, storeVars>>

InitStyle ==
  /\ PipeQuiet /\ HookQuiet /\ PriceQuiet /\ VolQuiet /\ CmpQuiet /\ TopQuiet
  /\ ViewQuiet /\ MarketQuiet /\ StyleInit /\ PublishQuiet /\ AverageQuiet /\ ChangeQuiet
  /\ StoreQuiet

StyleNext == RenderRow

SpecStyle == InitStyle /\ [][StyleNext]_vars

\* the prices of the row's priced cells
RowPrices == { parsePrice(prices[i])[1] :
                 i \in { j \in 1..Len(prices) : parsePrice(prices[j]) # Null } }

IsRowLowest(n) == n \in RowPrices /\ \A m \in RowPrices : ~Less(m, n)

IsRowHighest(n) == n \in RowPrices /\ \A m \in RowPrices : ~Less(n, m)

\* C20: in a rendered row, every priced cell whose price is the row's lowest
\* has the lowest style, every priced cell whose price is the row's highest
\* has the highest style, and an N/A cell has neither.
C20_LowestGreenHighestRed ==
  classes # Unstyled =>
    \A i \in 1..Len(prices) :
      /\ (parsePrice(prices[i]) # Null /\ IsRowLowest(parsePrice(prices[i])[1]))
           => classes[i] = ClassLowest
      /\ (parsePrice(prices[i]) # Null /\ IsRowHighest(parsePrice(prices[i])[1]))
           => classes[i] = ClassHighest
      /\ prices[i] = NA => classes[i] \notin { ClassLowest, ClassHighest }

(***************************************************************************)
(* useData: what the DataState holds while and after the load.             *)
(***************************************************************************)
\* the four documents of the DataState, in the order of the fetches
Documents == << data.dashboard, data.comparison, data.regionView, data.summary >>

\* setData({ dashboard, comparison, regionView, summary, loading: false,
\*           error: null }): the four come from the four answers of one load
FromOneLoad ==
  /\ ~data.loading
  /\ data.error = "null"
  /\ \A i \in Slots : Documents[i] = served[i].body

StillEmpty == \A i \in Slots : Documents[i] = "empty"

\* C23: the four documents of useData are set all or nothing: either all
\* four come from the same completed load or all four still hold their
\* initial empty values; while loading is true the error is null; and once
\* loading is false it stays false for the life of the hook (only
\* reloading the page, which builds the hook anew, shows the spinner again).
C23_DocumentsAllOrNothing ==
  /\ [](FromOneLoad \/ StillEmpty)
  /\ [](data.loading => data.error = "null")
  /\ [][ (~data.loading /\ ~Reload) => ~data'.loading ]_vars

\* a load of which three documents arrived and the fourth was not JSON:
\* none of the three was kept
C23_Witness ==
  /\ phase = "settled"
  /\ \A i \in 1..3 : served[i] = WellFormed
  /\ served[4].body = "text"
  /\ StillEmpty
  /\ ~data.loading
  /\ data.error = ErrorMessage

(***************************************************************************)
(* MarketComparison: the loads in flight, the selection and the controls.  *)
(***************************************************************************)
\* C24: at most one load of the market-comparison document is in flight at
\* any time; a load starts only when none is in flight, by the mount effect
\* or by Retry, and Retry is there only in the error state with loading
\* false, so no answer of an earlier load arrives after a later load began.
C24_OneLoadInFlight ==
  /\ [](Len(pending) <= 1)
  /\ [][ Len(pending') > Len(pending) =>
           /\ pending = << >>
           /\ \/ ~mounted
              \/ RenderMarket = "error" /\ ~loading /\ error # "null" ]_vars

\* the second load, started by Retry after the first one failed, is the
\* only one in flight
C24_Witness ==
  /\ mounted
  /\ Len(pending) = 1
  /\ marketData # Null
  /\ marketData[1].kind = "other"
  /\ pending[1].at = "json"
  /\ pending[1].res.body.kind = "doc"

\* the region keys and, for a region, the category keys of the loaded data
IsRegionKey(region) ==
  \E i \in 1..Len(availableRegions) : availableRegions[i] = region

IsCategoryKey(region, category) ==
  \E i \in 1..Len(CategoriesOf(region)) : CategoriesOf(region)[i] = category

C26_RegionChangeFrame ==
  [][ \A region \in MarketRegionNames :
        handleRegionChange(region) =>
          /\ selectedRegion' = region
          /\ searchQuery' = << >>
          /\ selectedCategory' =
               IF CategoriesOf(region) = << >> THEN "" ELSE Head(CategoriesOf(region))
          /\ UNCHANGED <<sortBy, showTopSpread, marketData, loading, error>> ]_vars

\* a region without categories was chosen while a search text, the spread
\* order and the switch were set
C26_Witness ==
  /\ ControlsShown
  /\ Len(availableRegions) = 2
  /\ selectedRegion = availableRegions[2]
  /\ CategoriesOf(availableRegions[1]) # << >>
  /\ availableCategories = << >>
  /\ selectedCategory = ""
  /\ searchQuery = << >>
  /\ sortBy = "spread"
  /\ showTopSpread

(***************************************************************************)
(* RegionalRankings.  A dashboard record has a region, a category and a    *)
(* latest price; an average is kept as << total, count >> and two of them  *)
(* are compared by cross-multiplication.                                   *)
(***************************************************************************)
\* const categories = ['Rice', 'Meat', 'Fish', 'Vegetables', 'Fruits']
categories == << "Rice", "Meat", "Fish", "Vegetables", "Fruits" >>

RankedRegionNames == { "CAR", "NCR", "Region I" }

DashboardItem(r, c, p) == [region |-> r, category |-> c, latest_price |-> p]

DashboardItems ==
  { DashboardItem(r, c, p) : r \in RankedRegionNames, c \in { "Rice", "Meat" },
                             p \in { 10, 20 } }

\* regionMap[d.region].totalPrice += d.latest_price; count++: the entries
\* stay in the order in which their regions first occur
RECURSIVE regionMap(_, _)
regionMap(list, category) ==
  IF list = << >> THEN << >>
  ELSE LET before == regionMap(SubSeq(list, 1, Len(list) - 1), category)
           d == list[Len(list)]
       IN IF d.category # category THEN before
          ELSE IF \E i \in 1..Len(before) : before[i].region = d.region
            THEN [i \in 1..Len(before) |->
                    IF before[i].region = d.region
                      THEN [before[i] EXCEPT !.totalPrice = @ + d.latest_price,
                                             !.count = @ + 1]
                      ELSE before[i]]
            ELSE Append(before, [region |-> d.region,
                                 totalPrice |-> d.latest_price, count |-> 1])

\* a ranking by the sum of the prices
avgPriceAsTotal(r) == << r.totalPrice, 1 >>

\* avgPrice: r.totalPrice / r.count
avgPrice(r) == << r.totalPrice, r.count >>

\* (a, b) => a.avgPrice - b.avgPrice, by its sign
ByAvgPrice(a, b) == a.avgPrice[1] * b.avgPrice[2] - b.avgPrice[1] * a.avgPrice[2]

\* Object.values(regionMap).map(...).sort(...)
regionalDataOf(list, category) ==
  LET m == regionMap(list, category)
      regions == [i \in 1..Len(m) |->
                    [region |-> m[i].region, avgPrice |-> avgPrice(m[i])]]
  IN SortStable(ByAvgPrice, regions)

\* the badges of row `index` (counted from 1)
Badges(index) ==
  (IF index = 1 THEN { "Cheapest" } ELSE {})
  \cup (IF index = Len(regionalData) THEN { "Most Expensive" } ELSE {})

RankInit ==
  /\ dashboard \in SeqsUpTo(DashboardItems, MaxRecords)
  /\ mostVolatile = << >>
  /\ leastVolatile = << >>
  /\ rankingsCategory = "Rice"
  /\ regionalData = regionalDataOf(dashboard, "Rice")

\* <Tabs value={selectedCategory} onValueChange={setSelectedCategory}>
TabChange(category) ==
  /\ rankingsCategory' = category
  /\ regionalData' = regionalDataOf(dashboard, category)
  /\ UNCHANGED <<pipeVars, hookVars, fnVars, controlVars, tableVars, marketVars,
                 styleVars, publishVars, averageVars, changeVars, storeVars>>

InitRank ==
  /\ PipeQuiet /\ HookQuiet /\ PriceQuiet /\ VolQuiet /\ CmpQuiet /\ RankInit
  /\ ControlQuiet /\ TableQuiet /\ MarketQuiet /\ StyleQuiet /\ PublishQuiet
  /\ AverageQuiet /\ ChangeQuiet /\ StoreQuiet

RankNext == \E i \in 1..Len(categories) : TabChange(categories[i])

SpecRank == InitRank /\ [][RankNext]_vars

\* the records of the selected category in a region
RecordsOf(region) ==
  { i \in 1..Len(dashboard) :
      dashboard[i].region = region /\ dashboard[i].category = rankingsCategory }

RECURSIVE TotalOf(_)
TotalOf(ids) ==
  IF ids = {} THEN 0
  ELSE LET i == CHOOSE j \in ids : TRUE
       IN dashboard[i].latest_price + TotalOf(ids \ { i })

\* row k shows the mean of the latest prices of its region's records
ShowsMean(k) ==
  LET ids == RecordsOf(regionalData[k].region)
  IN /\ ids # {}
     /\ regionalData[k].avgPrice[2] > 0
     /\ regionalData[k].avgPrice[1] * Cardinality(ids)
          = TotalOf(ids) * regionalData[k].avgPrice[2]

\* C22: for the selected category the regions are listed in ascending
\* order of the mean latest price of their records of that category, every
\* region with at least one such record is listed exactly once (and no
\* other region is listed), the first row carries "Cheapest" and the last
\* row "Most Expensive".
C22_RankingAscendingByMean ==
  /\ \A k \in 1..Len(regionalData) : ShowsMean(k)
  /\ \A k \in 1..Len(regionalData), l \in 1..Len(regionalData) :
       k < l => ByAvgPrice(regionalData[k], regionalData[l]) <= 0
  /\ \A r \in RankedRegionNames :
       Cardinality({ k \in 1..Len(regionalData) : regionalData[k].region = r })
         = IF RecordsOf(r) = {} THEN 0 ELSE 1
  /\ \A k \in 1..Len(regionalData) :
       /\ "Cheapest" \in Badges(k) <=> k = 1
       /\ "Most Expensive" \in Badges(k) <=> k = Len(regionalData)

\* the region that occurs first has two records whose prices add up to more
\* than the one price of the other region, and a lower mean: it is listed
\* first
C22_Witness ==
  /\ rankingsCategory = "Meat"
  /\ Len(dashboard) = 3
  /\ Len(regionalData) = 2
  /\ regionalData[1].region = dashboard[1].region
  /\ regionalData[1].avgPrice = << 30, 2 >>
  /\ regionalData[2].avgPrice = << 20, 1 >>

(***************************************************************************)
(* The numbers of the script are IEEE 754 doubles.  A natural number is    *)
(* kept as a sequence of limbs, least significant first, with no leading   *)
(* zero limb; a double is zero or m * 2^e with a significand m of 53 bits. *)
(* Every operation gives the double nearest to the exact result, ties to   *)
(* even.  The doubles met here are far from the subnormal and from the     *)
(* infinite ones.                                                          *)
(***************************************************************************)
Limb == 2^15

RECURSIVE BitsOf(_)
BitsOf(n) == IF n = 0 THEN 0 ELSE 1 + BitsOf(n \div 2)

LimbBits == BitsOf(Limb - 1)

RECURSIVE BigOf(_)
BigOf(n) == IF n = 0 THEN << >> ELSE << n % Limb >> \o BigOf(n \div Limb)

RECURSIVE BigTrim(_)
BigTrim(a) ==
  IF a # << >> /\ a[Len(a)] = 0 THEN BigTrim(SubSeq(a, 1, Len(a) - 1)) ELSE a

RECURSIVE BigTimesFrom(_, _, _)
BigTimesFrom(a, n, carry) ==
  IF a = << >> THEN BigOf(carry)
  ELSE << (Head(a) * n + carry) % Limb >>
         \o BigTimesFrom(Tail(a), n, (Head(a) * n + carry) \div Limb)

\* a * n, for n up to 2^15
BigTimes(a, n) == IF n = 0 THEN << >> ELSE BigTimesFrom(a, n, 0)

\* a * 2^bits
BigShift(a, bits) ==
  IF a = << >> THEN << >>
  ELSE [i \in 1..(bits \div LimbBits) |-> 0] \o BigTimes(a, 2^(bits % LimbBits))

RECURSIVE BigTop(_, _, _)
BigTop(a, b, i) ==
  IF i = 0 THEN 0
  ELSE IF a[i] < b[i] THEN -1
  ELSE IF a[i] > b[i] THEN 1
  ELSE BigTop(a, b, i - 1)

\* the sign of a - b
BigCompare(a, b) ==
  IF Len(a) < Len(b) THEN -1
  ELSE IF Len(a) > Len(b) THEN 1
  ELSE BigTop(a, b, Len(a))

RECURSIVE BigMinusFrom(_, _, _)
BigMinusFrom(a, b, borrow) ==
  IF a = << >> THEN << >>
  ELSE LET d == Head(a) - (IF b = << >> THEN 0 ELSE Head(b)) - borrow
       IN << d % Limb >>
            \o BigMinusFrom(Tail(a), IF b = << >> THEN << >> ELSE Tail(b),
                            IF d < 0 THEN 1 ELSE IF d >= Limb THEN -1 ELSE 0)

\* a - b, for a >= b
BigMinus(a, b) == BigTrim(BigMinusFrom(a, b, 0))

\* a + 1
BigNext(a) == BigTrim(BigMinusFrom(a \o << 0 >>, << >>, -1))

BigOdd(a) == a # << >> /\ Head(a) % 2 = 1

\* the number of binary digits of a
BigBits(a) == IF a = << >> THEN 0 ELSE LimbBits * (Len(a) - 1) + BitsOf(a[Len(a)])

\* the limb of r at position i (0 beyond its length)
LimbAt(r, i) == IF i >= 1 /\ i <= Len(r) THEN r[i] ELSE 0

RECURSIVE Digit(_, _, _, _)
\* the largest d in lo..hi with q * d <= r
Digit(r, q, lo, hi) ==
  IF lo >= hi THEN lo
  ELSE IF BigCompare(BigTimes(q, (lo + hi + 1) \div 2), r) <= 0
    THEN Digit(r, q, (lo + hi + 1) \div 2, hi)
  ELSE Digit(r, q, lo, (lo + hi + 1) \div 2 - 1)

\* floor(r / q) given the two leading limbs of r and the leading limb of q:
\* it lies between their quotients rounded either way
DigitBetween(r, q, lead, top) ==
  IF Len(q) = 1 THEN lead \div top
  ELSE Digit(r, q, lead \div (top + 1),
             IF (lead + 1) \div top < Limb THEN (lead + 1) \div top ELSE Limb - 1)

\* floor(r / q) for r < q * Limb
DigitOf(r, q) ==
  IF BigCompare(r, q) < 0 THEN 0
  ELSE DigitBetween(r, q, LimbAt(r, Len(q) + 1) * Limb + LimbAt(r, Len(q)), q[Len(q)])

\* one step of the long division: the next digit d of the quotient
DivideBy(q, r, d, quotient) ==
  << BigTrim(<< d >> \o quotient), BigMinus(r, BigTimes(q, d)) >>

DivideStep(q, r, quotient) == DivideBy(q, r, DigitOf(r, q), quotient)

DivideNext(q, limb, before) ==
  DivideStep(q, BigTrim(<< limb >> \o before[2]), before[1])

RECURSIVE Divide(_, _, _)
\* << quotient, remainder >> of the limbs i.. of p by q: long division
Divide(p, q, i) ==
  IF i > Len(p) THEN << << >>, << >> >>
  ELSE DivideNext(q, p[i], Divide(p, q, i + 1))

PlusZero == [m |-> << >>, e |-> 0]

\* binary digits of the significand of a double
Significand == 53

\* k with 2^k <= p / q < 2^(k + 1), given k0 = bits of p - bits of q
MagnitudeFrom(p, q, k0) ==
  IF BigCompare(IF k0 < 0 THEN BigShift(p, -k0) ELSE p,
                IF k0 > 0 THEN BigShift(q, k0) ELSE q) < 0
    THEN k0 - 1
    ELSE k0

Magnitude(p, q) == MagnitudeFrom(p, q, BigBits(p) - BigBits(q))

\* a significand that grew to 54 bits is 2^53
Normalized(m, e) ==
  IF BigBits(m) > Significand
    THEN [m |-> BigShift(<< 1 >>, Significand - 1), e |-> e + 1]
    ELSE [m |-> m, e |-> e]

\* round up when what remains is above half, or is half and the quotient odd
RoundsUp(half, quotient) == half > 0 \/ (half = 0 /\ BigOdd(quotient))

Nearest(d, den, e) ==
  Normalized(IF RoundsUp(BigCompare(BigTimes(d[2], 2), den), d[1])
               THEN BigNext(d[1]) ELSE d[1], e)

NearestTo(num, den, e) == Nearest(Divide(num, den, 1), den, e)

\* (p / q) * 2^e with the quotient taken after a shift by s binary digits
RoundedBy(p, q, e, s) ==
  NearestTo(IF s > 0 THEN BigShift(p, s) ELSE p,
            IF s < 0 THEN BigShift(q, -s) ELSE q, e - s)

\* the double nearest to (p / q) * 2^e, ties to even
Rounded(p, q, e) ==
  IF p = << >> THEN PlusZero
  ELSE RoundedBy(p, q, e, Significand - 1 - Magnitude(p, q))

\* the exact result of an operation, as << p, q, e >>, rounded
RoundedOf(exact) == Rounded(exact[1], exact[2], exact[3])

\* the expressions of the script: a decimal m / 10^k, a difference
\* (of a number not above the other), a quotient, a multiple
Number(n) == [op |-> "number", n |-> n]

Difference(l, r) == [op |-> "-", left |-> l, right |-> r]

Quotient(l, r) == [op |-> "/", left |-> l, right |-> r]

Multiple(l, n) == [op |-> "*", left |-> l, by |-> n]

RECURSIVE Value(_)
\* the double an expression evaluates to: each operation rounds its exact
\* result, and so does the reading of a decimal
Value(x) ==
  LET a == Value(x.left)
      b == Value(x.right)
      e == IF a.e < b.e THEN a.e ELSE b.e
  IN RoundedOf(
        CASE x.op = "number" -> << BigOf(x.n[1]), BigOf(Pow10(x.n[2])), 0 >>
          [] x.op = "-" ->
               IF b.m = << >> THEN << a.m, << 1 >>, a.e >>
               ELSE << BigMinus(BigShift(a.m, a.e - e), BigShift(b.m, b.e - e)),
                       << 1 >>, e >>
          [] x.op = "/" -> << a.m, b.m, a.e - b.e >>
          [] x.op = "*" -> << BigTimes(a.m, x.by), << 1 >>, a.e >>)

\* the sign of a - b
Compare(a, b) ==
  IF a.m = << >> \/ b.m = << >>
    THEN (IF a.m # << >> THEN 1 ELSE IF b.m # << >> THEN -1 ELSE 0)
    ELSE LET e == IF a.e < b.e THEN a.e ELSE b.e
         IN BigCompare(BigShift(a.m, a.e - e), BigShift(b.m, b.e - e))

\* a >= n, for a whole number n
AtLeast(a, n) ==
  IF a.m = << >> THEN n <= 0
  ELSE IF a.e >= 0 THEN BigCompare(BigShift(a.m, a.e), BigOf(n)) >= 0
  ELSE BigCompare(a.m, BigShift(BigOf(n), -a.e)) >= 0

(***************************************************************************)
(* MarketComparison: the rows of the table and the summary cards.          *)
(***************************************************************************)
\* const spread = min > 0 ? ((max - min) / min) * 100 : 0, of the stats of a
\* row (Null when the row has no priced cell)
spreadOfRange(min, max) ==
  Value(Multiple(Quotient(Difference(Number(max), Number(min)), Number(min)), 100))

spreadOfStats(stats) ==
  IF stats = Null THEN Null
  ELSE IF stats[1].min[1] > 0 THEN Some(spreadOfRange(stats[1].min, stats[1].max))
  ELSE Some(PlusZero)

spreadOf(ps) == spreadOfStats(getPriceStats(ps))

\* getPriceStats(it.prices) of each commodity of a table, by its place
spreadsOf(table) == [i \in 1..Len(table) |-> spreadOf(table[i].prices)]

\* s && s.spread >= 10
IsHighSpread(s) == s # Null /\ AtLeast(s[1], 10)

Letters == << "a", "c", "e", "f", "g", "h", "i", "l", "n", "o", "p", "r", "s",
             "t", "w", "y" >>

Capitals == << "A", "C", "E", "F", "G", "H", "I", "L", "N", "O", "P", "R", "S",
              "T", "W", "Y" >>

\* String.prototype.toLowerCase
toLowerCase(t) ==
  [i \in 1..Len(t) |->
     IF \E j \in 1..Len(Capitals) : Capitals[j] = t[i]
       THEN Letters[CHOOSE j \in 1..Len(Capitals) : Capitals[j] = t[i]]
       ELSE t[i]]

\* String.prototype.includes
includes(t, q) == \E i \in 0..(Len(t) - Len(q)) : SubSeq(t, i + 1, i + Len(q)) = q

\* it.commodity.toLowerCase().includes(q) || it.specification.toLowerCase().includes(q)
MatchesSearch(it, query) ==
  \/ includes(toLowerCase(it.commodity), toLowerCase(query))
  \/ includes(toLowerCase(it.specification), toLowerCase(query))

LetterRank(ch) == CHOOSE j \in 1..Len(Letters) : Letters[j] = ch

RECURSIVE CompareLetters(_, _)
CompareLetters(a, b) ==
  IF a = << >> THEN (IF b = << >> THEN 0 ELSE -1)
  ELSE IF b = << >> THEN 1
  ELSE IF Head(a) # Head(b) THEN LetterRank(Head(a)) - LetterRank(Head(b))
  ELSE CompareLetters(Tail(a), Tail(b))

\* a.localeCompare(b), for words written alike in capitals and small letters
localeCompare(a, b) == CompareLetters(toLowerCase(a), toLowerCase(b))

\* the rows of the table: search, High-Spread Only, order; `spreads` holds
\* what getPriceStats gives for each commodity
filteredAndSortedCommoditiesOf(table, spreads, query, order, top) ==
  LET searched == IF query # << >>
                    THEN SelectSeq(table, LAMBDA it : MatchesSearch(it, query))
                    ELSE table
      items == IF top
                 THEN SelectSeq(searched, LAMBDA it : IsHighSpread(spreads[it.id]))
                 ELSE searched
      BySpread(a, b) == Compare(IF spreads[b.id] = Null THEN PlusZero ELSE spreads[b.id][1],
                                IF spreads[a.id] = Null THEN PlusZero ELSE spreads[a.id][1])
      ByName(a, b) == localeCompare(a.commodity, b.commodity)
  IN IF order = "spread" THEN SortStable(BySpread, items)
     ELSE SortStable(ByName, items)

\* of the summary cards, "High-Spread Items" (Null: the cards are not shown)
summaryStatsOf(listed, spreads) ==
  IF listed = << >> THEN Null
  ELSE Some([highSpreadCount |->
               Len(SelectSeq(listed, LAMBDA it : IsHighSpread(spreads[it.id])))])

\* what a render shows of a table: its rows and its summary
Summarized(listed, spreads) ==
  [rows |-> listed, summary |-> summaryStatsOf(listed, spreads)]

TableView(table, spreads, query, order, top) ==
  Summarized(filteredAndSortedCommoditiesOf(table, spreads, query, order, top), spreads)

\* the useMemo values of a render
Shows(view) ==
  /\ filteredAndSortedCommodities' = view.rows
  /\ summaryStats' = view.summary

\* the next render: the table is the same, and so is what getPriceStats gives
\* for its commodities; the rows and the summary are computed again
Rerender ==
  /\ UNCHANGED <<currentData, priceStats>>
  /\ Shows(TableView(currentData, priceStats, searchQuery', sortBy', showTopSpread'))

\* texts typed into the search box
SearchTexts == { << >>, << "r", "i" >>, << "R", "I" >> }

\* <Input value={searchQuery} onChange={(e) => setSearchQuery(e.target.value)} />
SearchChange(text) ==
  /\ ControlsShown
  /\ searchQuery' = text
  /\ UNCHANGED <<marketVars, sortBy, showTopSpread>>
  /\ UNCHANGED <<pipeVars, hookVars, fnVars, rankVars, styleVars, publishVars,
                 averageVars, changeVars, storeVars>>
  /\ Rerender

\* onClick={() => setSortBy("name")}, onClick={() => setSortBy("spread")}
SortChange(order) ==
  /\ ControlsShown
  /\ sortBy' = order
  /\ UNCHANGED <<marketVars, searchQuery, showTopSpread>>
  /\ UNCHANGED <<pipeVars, hookVars, fnVars, rankVars, styleVars, publishVars,
                 averageVars, changeVars, storeVars>>
  /\ Rerender

\* onClick={() => setShowTopSpread(!showTopSpread)}
ToggleTopSpread ==
  /\ ControlsShown
  /\ showTopSpread' = ~showTopSpread
  /\ UNCHANGED <<marketVars, searchQuery, sortBy>>
  /\ UNCHANGED <<pipeVars, hookVars, fnVars, rankVars, styleVars, publishVars,
                 averageVars, changeVars, storeVars>>
  /\ Rerender

MarketNext ==
  \/ Mount
  \/ \E i \in 1..Len(pending) : Responded(i)
  \/ \E i \in 1..Len(pending) : Parsed(i)
  \/ Retry
  \/ \E region \in MarketRegionNames : handleRegionChange(region)
  \/ \E category \in MarketCategoryNames : CategoryChange(category)
  \/ \E text \in SearchTexts : SearchChange(text)
  \/ \E order \in {"name", "spread"} : SortChange(order)
  \/ ToggleTopSpread

InitMarket ==
  /\ PipeQuiet /\ HookQuiet /\ PriceQuiet /\ VolQuiet /\ CmpQuiet /\ TopQuiet
  /\ SectionsQuiet

\* every fetch settles, and so does every res.json()
MarketFairness ==
  /\ WF_vars(\E i \in 1..Len(pending) : Responded(i))
  /\ WF_vars(\E i \in 1..Len(pending) : Parsed(i))

SpecMarket == InitMarket /\ [][MarketNext]_vars /\ MarketFairness

Commodity(name, spec, ps) == [commodity |-> name, specification |-> spec, prices |-> ps]

Catalogue ==
  { Commodity(<< "R", "i", "c", "e" >>, << "F", "a", "n", "c", "y" >>,
              << << "4", "5", ".", "1", "0" >>, << "4", "9", ".", "6", "1" >> >>),
    Commodity(<< "C", "o", "r", "n" >>, << "G", "r", "i", "t", "s" >>,
              << << "5", "0", ".", "0", "0" >>, << "5", "5", ".", "0", "0" >> >>),
    Commodity(<< "C", "o", "r", "n" >>, << "W", "h", "i", "t", "e" >>,
              << << "4", "0", ".", "0", "0" >>, << "N", "/", "A" >>, << "6", "0", ".", "0", "0" >> >>),
    Commodity(<< "R", "i", "c", "e" >>, << "F", "a", "n", "c", "y" >>,
              << << "0" >>, << "2", "5", ".", "0", "0" >> >>),
    Commodity(<< "C", "o", "r", "n" >>, << "W", "h", "i", "t", "e" >>,
              << << "N", "/", "A" >>, << "N", "/", "A" >> >>),
    Commodity(<< "R", "i", "c", "e" >>, << "S", "p", "e", "c", "i", "a", "l" >>,
              << << "5", "0", ".", "0", "0" >>, << "5", "2", ".", "5", "0" >> >>) }

\* a table: its commodities, each with its place in the document
TableOf(t) == [i \in 1..Len(t) |->
                [id |-> i, commodity |-> t[i].commodity,
                 specification |-> t[i].specification, prices |-> t[i].prices]]

Showing(view) ==
  /\ filteredAndSortedCommodities = view.rows
  /\ summaryStats = view.summary

\* the section after a load that brought one region with one category
TableInit ==
  /\ mounted = TRUE
  /\ pending = << >>
  /\ marketData = Some(MarketDocument(<< RegionEntry("NCR", << "RICE" >>) >>))
  /\ selectedRegion = "NCR"
  /\ selectedCategory = "RICE"
  /\ loading = FALSE
  /\ error = "null"
  /\ ControlQuiet
  /\ \E t \in SeqsUpTo(Catalogue, MaxCommodities) : currentData = TableOf(t)
  /\ priceStats = spreadsOf(currentData)
  /\ Showing(TableView(currentData, priceStats, << >>, "name", FALSE))

InitTable ==
  /\ PipeQuiet /\ HookQuiet /\ PriceQuiet /\ VolQuiet /\ CmpQuiet /\ TopQuiet
  /\ TableInit /\ RankQuiet /\ StyleQuiet /\ PublishQuiet /\ AverageQuiet
  /\ ChangeQuiet /\ StoreQuiet

TableNext ==
  \/ \E text \in SearchTexts : SearchChange(text)
  \/ \E order \in {"name", "spread"} : SortChange(order)
  \/ ToggleTopSpread

SpecTable == InitTable /\ [][TableNext]_vars

\* the commodity at place i of the table is among the rows
IsListed(i) ==
  \E k \in 1..Len(filteredAndSortedCommodities) : filteredAndSortedCommodities[k].id = i

\* the priced cells of a row, as decimals
PricedCells(ps) == { Nums(ps)[i] : i \in 1..Len(Nums(ps)) }

\* (max - min) / min * 100 >= 10 over the priced cells, in exact arithmetic:
\* there are priced cells, the least is above 0 and 10 (max - min) >= min
SpreadAtLeastTen(ps) ==
  /\ PricedCells(ps) # {}
  /\ LET min == MathMin(Nums(ps))
         max == MathMax(Nums(ps))
     IN /\ min[1] > 0
        /\ 10 * (max[1] * Pow10(min[2]) - min[1] * Pow10(max[2]))
             >= min[1] * Pow10(max[2])

\* C21: with High-Spread Only switched on, a commodity of the current table
\* is listed if and only if it matches the search text and its spread
\* (max - min) / min * 100 over its priced cells is at least 10; commodities
\* with no priced cell or with a least price of 0 are never listed; and the
\* "High-Spread Items" count is the number of listed commodities with a
\* spread of at least 10.
C21_HighSpreadOnlyListsSpreadAtLeastTen ==
  /\ showTopSpread =>
       \A i \in 1..Len(currentData) :
         /\ IsListed(i) <=>
              /\ searchQuery # << >> => MatchesSearch(currentData[i], searchQuery)
              /\ SpreadAtLeastTen(currentData[i].prices)
         /\ (PricedCells(currentData[i].prices) = {}
               \/ \E n \in PricedCells(currentData[i].prices) : n[1] = 0)
              => ~IsListed(i)
  /\ summaryStats # Null =>
       summaryStats[1].highSpreadCount =
         Cardinality({ i \in 1..Len(currentData) :
                         IsListed(i) /\ SpreadAtLeastTen(currentData[i].prices) })

====
